---------------------------- MODULE Spec2Model ----------------------------
(***************************************************************************)
(* Model of the balance ledger of constb/tt-golang                         *)
(* (internal/database: mutate.go, query.go, currency.go).                  *)
(*                                                                         *)
(* The three relations of the store are the variables balance,             *)
(* balance_reserve and transaction.  Every handler of mutate.go is written *)
(* once, as an operator that executes ONE of its SQL statements on a       *)
(* (store, session) pair.  Spec runs a handler to completion in one step   *)
(* (calls one after the other); SpecConc runs the same statement operators *)
(* one statement at a time for several sessions, under the row locks and   *)
(* the read-committed visibility of the store.                             *)
(***************************************************************************)
EXTENDS Integers, FiniteSets, Sequences, TLC

VARIABLES
    balance,          \* user_id -> [currency, current_value]        (table balance)
    balance_reserve,  \* order_id -> reserve row                     (table balance_reserve)
    transaction,      \* set of transaction rows                     (table "transaction")
    lastID,           \* the last id handed out by GenerateID
    session           \* worker -> the handler call it is executing (SpecConc)

vars == <<balance, balance_reserve, transaction, lastID, session>>

---------------------------------------------------------------------------
(* Bounds of the model.                                                    *)

\* number of fractional decimal digits carried by an amount (decimal.Decimal
\* is arbitrary precision; the model carries FracDigits digits)
FracDigits == 5

\* request values are 1..MaxAmount cents ("0.01", "0.02", ...)
MaxAmount == 2

\* ids handed out in SpecCtx
MaxID == 3

Cent == 10 ^ (FracDigits - 2)

Users == {"u1", "u2"}

Keys == {"k1", "k2"}

\* the key of the top-ups of Spec: one top-up is ever applied there
SeqKeys == {"k1"}

Orders == {"o1", "o2"}

Items == {"item"}

\* the goroutines serving requests side by side in SpecConc
Workers == {"w1", "w2"}

\* request amounts
Values == {k * Cent : k \in 1 .. MaxAmount}

\* the requests of SpecConc: one currency, one amount
ConcCurrencies == {"EUR"}

ConcValues == {Cent}

ConcOrders == {"o1"}

---------------------------------------------------------------------------
(* currency.go                                                             *)

baseCurrency == "EUR"

\* the rate table (package variable rates, filled from the stub and
\* overwritten by the tests); the model keeps three of its currencies
rates == [EUR |-> 1, USD |-> 2, TRY |-> 20]

\* currencies the requests name
RequestCurrencies == {"EUR", "USD"}

\* a check that lets every code through
IsCurrencyValid_Any(currency) == TRUE

IsCurrencyValid(currency) == currency \in DOMAIN rates

\* decimal.Decimal.Div: the quotient rounded half away from zero at the
\* last digit carried
DecimalDiv(v, r) ==
    LET q == v \div r
        m == v % r
    IN  IF 2 * m >= r THEN q + 1 ELSE q

\* a conversion that looks up the target currency before the source currency
ConvertCurrency_TargetFirst(value, from, to) ==
    IF value < 0 THEN <<0, "bad_parameter:value">>
    ELSE IF from = to THEN <<0, "bad_parameter:currency">>
    ELSE IF to # baseCurrency /\ ~IsCurrencyValid(to)
         THEN <<0, "invalid_currency:" \o to>>
    ELSE IF from # baseCurrency /\ ~IsCurrencyValid(from)
         THEN <<0, "invalid_currency:" \o from>>
    ELSE IF value = 0 THEN <<0, "">>
    ELSE <<(IF from = baseCurrency THEN value ELSE DecimalDiv(value, rates[from]))
             * (IF to = baseCurrency THEN 1 ELSE rates[to]), "">>

\* ConvertCurrency returns <<value, error>>
ConvertCurrency(value, from, to) ==
    IF value < 0 THEN <<0, "bad_parameter:value">>
    ELSE IF from = to THEN <<0, "bad_parameter:currency">>
    ELSE IF from # baseCurrency /\ ~IsCurrencyValid(from)
         THEN <<0, "invalid_currency:" \o from>>
    ELSE LET valueInBase ==
                 IF from = baseCurrency THEN value
                 ELSE IF value = 0 THEN 0 ELSE DecimalDiv(value, rates[from])
         IN  IF to = baseCurrency THEN <<valueInBase, "">>
             ELSE IF ~IsCurrencyValid(to) THEN <<0, "invalid_currency:" \o to>>
             ELSE IF value = 0 THEN <<0, "">>
             ELSE <<valueInBase * rates[to], "">>

\* reserveValue.Mul(decimal.NewFromFloat(1.06))
WithMargin(value) == (value * 106) \div 100

---------------------------------------------------------------------------
(* The store.                                                              *)

\* A value written to a numeric column is kept with two fractional digits,
\* rounded half to even.
RoundBank(x) ==
    LET q == x \div Cent
        m == x % Cent
    IN  IF 2 * m < Cent THEN q * Cent
        ELSE IF 2 * m > Cent THEN (q + 1) * Cent
        ELSE IF q % 2 = 0 THEN q * Cent ELSE (q + 1) * Cent

Persist(x) == RoundBank(x)

\* the committed store as one value
Store == [balance |-> balance, balance_reserve |-> balance_reserve,
          transaction |-> transaction, lastID |-> lastID]

\* what the sessions running beside this one hold uncommitted
NoOthers == [locked |-> {}, insKeys |-> {}, insOrders |-> {}, delOrders |-> {}]

\* a new balance row in the base currency, whatever the request names
initUserBalance_Base(db, userID, currency) ==
    IF userID \in DOMAIN db.balance THEN db
    ELSE [db EXCEPT !.balance =
             (userID :> [currency |-> baseCurrency, current_value |-> 0]) @@ db.balance]

\* an upsert that overwrites the currency of an existing row
initUserBalance_Overwrite(db, userID, currency) ==
    [db EXCEPT !.balance =
        (userID :> [currency |-> currency,
                    current_value |-> IF userID \in DOMAIN db.balance
                                      THEN db.balance[userID].current_value ELSE 0])
        @@ db.balance]

\* INSERT INTO balance ... ON CONFLICT DO NOTHING (run on the pool: commits at once)
initUserBalance(db, userID, currency) ==
    IF userID \in DOMAIN db.balance THEN db
    ELSE [db EXCEPT !.balance =
             (userID :> [currency |-> currency, current_value |-> 0]) @@ db.balance]

\* utils.GenerateID: the next id of the node
GenerateID(db) == db.lastID + 1

\* SELECT id FROM transaction WHERE idempotency_key = $1 (0: no rows)
TxByIdempotencyKey(db, key) ==
    LET found == {t \in db.transaction : t.idempotency_key = key}
    IN  IF found = {} THEN 0 ELSE (CHOOSE t \in found : TRUE).id

\* the rows of "transaction" whose order_data->>'order_id' is orderID
TxOfOrder(db, orderID) == {t \in db.transaction : t.order_id = orderID}

\* SUM(user_currency_value) over the reserve rows `orders`
RECURSIVE SumReserve(_, _)
SumReserve(reserve, orders) ==
    IF orders = {} THEN 0
    ELSE LET o == CHOOSE x \in orders : TRUE
         IN  reserve[o].user_currency_value + SumReserve(reserve, orders \ {o})

ReservesOf(db, userID) ==
    {o \in DOMAIN db.balance_reserve : db.balance_reserve[o].user_id = userID}

\* a store that lets any INSERT through
IdempotencyKeyTaken_NoIndex(db, key) == FALSE

\* the UNIQUE index on transaction.idempotency_key refuses the INSERT
IdempotencyKeyTaken(db, key) == TxByIdempotencyKey(db, key) # 0

\* order_id is the primary key of balance_reserve: the INSERT is refused
ReserveOrderTaken(db, orderID) == orderID \in DOMAIN db.balance_reserve

---------------------------------------------------------------------------
(* A session: one call of a handler, its position and its Go locals.       *)

IdleSession ==
    [op |-> "Idle", pc |-> "idle",
     idempotencyKey |-> "", userID |-> "", currency |-> "", value |-> 0,
     orderID |-> "", itemID |-> "",
     balanceCurrency |-> "", balanceCurrentValue |-> 0,
     userAlreadyReserved |-> 0, txID |-> 0, err |-> "",
     locked |-> FALSE,
     wTx |-> {}, wIns |-> {}, wDel |-> {}, wBal |-> {},
     retID |-> 0, retErr |-> "", ended |-> ""]

NewCall(op, key, userID, currency, value, orderID, itemID) ==
    [IdleSession EXCEPT !.op = op, !.pc = "init", !.idempotencyKey = key,
                        !.userID = userID, !.currency = currency, !.value = value,
                        !.orderID = orderID, !.itemID = itemID]

\* return before the session is opened (a validation error)
Reject(l, e) == [l EXCEPT !.pc = "done", !.retErr = e, !.retID = 0]

\* return from inside the session; the deferred func then looks at err
Return(l, id, retErr, err) ==
    [l EXCEPT !.pc = "end", !.retID = id, !.retErr = retErr, !.err = err]

\* the deferred func of every handler: tx.Rollback if err != nil, else tx.Commit
Deferred(db, l) ==
    LET commit == l.err = ""
        reserve0 == db.balance_reserve
        kept == (DOMAIN reserve0) \ l.wDel
        reserve1 == [o \in kept |-> reserve0[o]]
        ins == {r.order_id : r \in l.wIns}
        reserve2 == [o \in kept \cup ins |->
                       IF o \in ins
                       THEN LET r == CHOOSE x \in l.wIns : x.order_id = o
                            IN  [user_id |-> r.user_id, item_id |-> r.item_id,
                                 currency |-> r.currency, value |-> r.value,
                                 user_currency_value |-> r.user_currency_value]
                       ELSE reserve1[o]]
        balance1 == IF l.wBal = {} THEN db.balance
                    ELSE [db.balance EXCEPT
                            ![l.userID].current_value = CHOOSE v \in l.wBal : TRUE]
        done == [IdleSession EXCEPT
                    !.op = l.op, !.pc = "done", !.idempotencyKey = l.idempotencyKey,
                    !.userID = l.userID, !.currency = l.currency, !.value = l.value,
                    !.orderID = l.orderID, !.itemID = l.itemID,
                    !.retID = l.retID, !.retErr = l.retErr,
                    !.ended = IF commit THEN "commit" ELSE "rollback"]
    IN  [db |-> IF commit
                THEN [db EXCEPT !.balance = balance1, !.balance_reserve = reserve2,
                                !.transaction = db.transaction \cup l.wTx]
                ELSE db,
         l |-> done]

\* SELECT currency, current_value FROM balance WHERE user_id = $1 FOR UPDATE
LockBalance(db, l, next) ==
    [db |-> db,
     l |-> [l EXCEPT !.pc = next, !.locked = TRUE,
                     !.balanceCurrency = db.balance[l.userID].currency,
                     !.balanceCurrentValue = db.balance[l.userID].current_value]]

---------------------------------------------------------------------------
(* mutate.go: TopUp                                                        *)

TopUpRow(l, id, inUserCurrency, newValue) ==
    [id |-> id,
     transaction_currency |-> l.currency, transaction_value |-> Persist(l.value),
     sender_id |-> "", sender_currency |-> "", sender_value |-> 0,
     sender_balance_before |-> 0, sender_balance_after |-> 0,
     recipient_id |-> l.userID, recipient_currency |-> l.balanceCurrency,
     recipient_value |-> Persist(inUserCurrency),
     recipient_balance_before |-> Persist(l.balanceCurrentValue),
     recipient_balance_after |-> Persist(newValue),
     order_id |-> "", item_id |-> "", idempotency_key |-> l.idempotencyKey]

\* the parameter checks, then 1) CREATE ZERO BALANCE IF NOT EXISTS
TopUpInit(db, l) ==
    IF l.idempotencyKey = "" THEN [db |-> db, l |-> Reject(l, "bad_parameter:idempotency key")]
    ELSE IF l.userID = "" THEN [db |-> db, l |-> Reject(l, "bad_parameter:user id")]
    ELSE IF ~IsCurrencyValid(l.currency) THEN [db |-> db, l |-> Reject(l, "bad_parameter:currency")]
    ELSE IF l.value <= 0 THEN [db |-> db, l |-> Reject(l, "bad_parameter:value")]
    ELSE [db |-> initUserBalance(db, l.userID, l.currency), l |-> [l EXCEPT !.pc = "lock"]]

\* TopUp going on to the INSERT whatever the key
TopUpProbe_Skip(db, l) == [db |-> db, l |-> [l EXCEPT !.pc = "write"]]

\* x) IDEMPOTENCY CHECK
TopUpProbe(db, l) ==
    LET txID == TxByIdempotencyKey(db, l.idempotencyKey)
    IN  IF txID # 0
        THEN [db |-> db, l |-> Return(l, txID, "", "")]
        ELSE [db |-> db, l |-> [l EXCEPT !.pc = "write"]]

\* 3) CONVERT CURRENCIES IF NEEDED, 4) CREATE TRANSACTION RECORD AND TOP-UP BALANCE
TopUpWrite(db, l) ==
    LET conv == IF l.currency = l.balanceCurrency THEN <<l.value, "">>
                ELSE ConvertCurrency(l.value, l.currency, l.balanceCurrency)
        topUpInUserCurrency == conv[1]
        balanceNewValue == l.balanceCurrentValue + topUpInUserCurrency
        txID == GenerateID(db)
        db1 == [db EXCEPT !.lastID = txID]
    IN  IF conv[2] # ""
        THEN [db |-> db, l |-> Return(l, 0, "internal:currency convert", conv[2])]
        ELSE IF IdempotencyKeyTaken(db, l.idempotencyKey)
        THEN [db |-> db1, l |-> Return(l, 0, "internal:save user tx", "unique_violation")]
        ELSE [db |-> db1,
              l |-> [Return(l, txID, "", "") EXCEPT
                       !.txID = txID,
                       !.wTx = {TopUpRow(l, txID, topUpInUserCurrency, balanceNewValue)},
                       !.wBal = {Persist(balanceNewValue)}]]

\* a TopUp whose INSERT waits for every balance row another session locked
TopUpBlocked_AnyLock(l, oth) ==
    \/ l.pc = "lock" /\ l.userID \in oth.locked
    \/ l.pc = "write" /\ (l.idempotencyKey \in oth.insKeys \/ oth.locked # {})

\* the statement the session is at would wait for another session
TopUpBlocked(l, oth) ==
    \/ l.pc = "lock" /\ l.userID \in oth.locked
    \/ l.pc = "write" /\ l.idempotencyKey \in oth.insKeys

TopUpStep(db, l) ==
    CASE l.pc = "init" -> TopUpInit(db, l)
      [] l.pc = "lock" -> LockBalance(db, l, "probe")
      [] l.pc = "probe" -> TopUpProbe(db, l)
      [] l.pc = "write" -> TopUpWrite(db, l)
      [] l.pc = "end" -> Deferred(db, l)

---------------------------------------------------------------------------
(* mutate.go: Reserve                                                      *)

\* the parameter checks shared by Reserve and CommitReservation, then
\* 1) CREATE ZERO BALANCE IF NOT EXISTS
OrderInit(db, l) ==
    IF l.userID = "" THEN [db |-> db, l |-> Reject(l, "bad_parameter:user id")]
    ELSE IF ~IsCurrencyValid(l.currency) THEN [db |-> db, l |-> Reject(l, "bad_parameter:currency")]
    ELSE IF l.value <= 0 THEN [db |-> db, l |-> Reject(l, "bad_parameter:value")]
    ELSE IF l.orderID = "" THEN [db |-> db, l |-> Reject(l, "bad_parameter:order id")]
    ELSE [db |-> initUserBalance(db, l.userID, l.currency), l |-> [l EXCEPT !.pc = "lock"]]

\* 3) SUM EXISTING USER RESERVES (NULL, read as not Valid, is kept as 0)
ReserveSum(db, l) ==
    [db |-> db,
     l |-> [l EXCEPT !.pc = "probe",
                     !.userAlreadyReserved =
                         SumReserve(db.balance_reserve, ReservesOf(db, l.userID))]]

\* Reserve going on whatever rows the order has
ReserveProbe_Skip(db, l) == [db |-> db, l |-> [l EXCEPT !.pc = "probeTx"]]

\* x) IDEMPOTENCY CHECK: COUNT(*) of the rows of (user_id, order_id)
ReserveProbe(db, l) ==
    LET orderReserve == IF l.orderID \in ReservesOf(db, l.userID) THEN 1 ELSE 0
    IN  IF orderReserve > 0
        THEN [db |-> db, l |-> Return(l, 0, "", "")]
        ELSE [db |-> db, l |-> [l EXCEPT !.pc = "probeTx"]]

\* Reserve going on whatever transactions the order has
ReserveProbeTx_Skip(db, l) == [db |-> db, l |-> [l EXCEPT !.pc = "write"]]

\* COUNT(*) of the transactions of the order
ReserveProbeTx(db, l) ==
    LET orderTx == Cardinality(TxOfOrder(db, l.orderID))
    IN  IF orderTx > 0
        THEN [db |-> db, l |-> Return(l, 0, "invalid_state", "invalid_state")]
        ELSE [db |-> db, l |-> [l EXCEPT !.pc = "write"]]

\* a check that lets a reserve exceed the spendable balance by a cent
NotEnoughToReserve_Weak(reserveInUserCurrency, spendable) ==
    reserveInUserCurrency > spendable + Cent

\* 5) CHECK IF USER HAS ENOUGH MONEY
NotEnoughToReserve(reserveInUserCurrency, spendable) ==
    reserveInUserCurrency > spendable

\* 4) CONVERT CURRENCIES IF NEEDED ... 6) CREATE RESERVATION
ReserveWrite(db, l) ==
    LET conv == IF l.currency = l.balanceCurrency THEN <<l.value, "">>
                ELSE ConvertCurrency(WithMargin(l.value), l.currency, l.balanceCurrency)
        reserveInUserCurrency == conv[1]
        spendable == l.balanceCurrentValue - l.userAlreadyReserved
    IN  IF conv[2] # ""
        THEN [db |-> db, l |-> Return(l, 0, "internal:currency convert", conv[2])]
        ELSE IF NotEnoughToReserve(reserveInUserCurrency, spendable)
        THEN \* the error is returned without being assigned to err: the
             \* deferred func commits
             [db |-> db, l |-> Return(l, 0, "not_enough_money", "")]
        ELSE IF ReserveOrderTaken(db, l.orderID)
        THEN [db |-> db, l |-> Return(l, 0, "internal:save reservation", "unique_violation")]
        ELSE [db |-> db,
              l |-> [Return(l, 0, "", "") EXCEPT
                       !.wIns = {[order_id |-> l.orderID, user_id |-> l.userID,
                                  item_id |-> l.itemID, currency |-> l.currency,
                                  value |-> Persist(l.value),
                                  user_currency_value |-> Persist(reserveInUserCurrency)]}]]

ReserveBlocked(l, oth) ==
    \/ l.pc = "lock" /\ l.userID \in oth.locked
    \/ l.pc = "write" /\ (l.orderID \in oth.insOrders \/ l.orderID \in oth.delOrders)

ReserveStep(db, l) ==
    CASE l.pc = "init" -> OrderInit(db, l)
      [] l.pc = "lock" -> LockBalance(db, l, "sum")
      [] l.pc = "sum" -> ReserveSum(db, l)
      [] l.pc = "probe" -> ReserveProbe(db, l)
      [] l.pc = "probeTx" -> ReserveProbeTx(db, l)
      [] l.pc = "write" -> ReserveWrite(db, l)
      [] l.pc = "end" -> Deferred(db, l)

---------------------------------------------------------------------------
(* mutate.go: CommitReservation                                            *)

ChargeRow(l, id, inUserCurrency, newValue) ==
    [id |-> id,
     transaction_currency |-> l.currency, transaction_value |-> Persist(l.value),
     sender_id |-> l.userID, sender_currency |-> l.balanceCurrency,
     sender_value |-> Persist(inUserCurrency),
     sender_balance_before |-> Persist(l.balanceCurrentValue),
     sender_balance_after |-> Persist(newValue),
     recipient_id |-> "", recipient_currency |-> "", recipient_value |-> 0,
     recipient_balance_before |-> 0, recipient_balance_after |-> 0,
     order_id |-> l.orderID, item_id |-> l.itemID, idempotency_key |-> ""]

\* the ids SELECT id FROM transaction WHERE order_data->>'order_id' = $1 may
\* scan into txID: the query has no ORDER BY, so any row of the order (0: no rows)
TxIDsOfOrder(db, orderID) ==
    IF TxOfOrder(db, orderID) = {} THEN {0}
    ELSE {t.id : t \in TxOfOrder(db, orderID)}

\* CommitReservation going on to the charge whatever the order has
CommitReservationProbe_Skip(db, l, txID) == [db |-> db, l |-> [l EXCEPT !.pc = "write"]]

\* x) IDEMPOTENCY CHECK, txID being the id the query returned
CommitReservationProbe(db, l, txID) ==
    IF txID > 0
    THEN [db |-> db, l |-> Return(l, txID, "", "")]
    ELSE [db |-> db, l |-> [l EXCEPT !.pc = "write"]]

\* an overdraft check that forgets previouslyReserved
OverdraftRefused_SameCurrencyOnly(balanceNewValue, currency, balanceCurrency, previouslyReserved) ==
    balanceNewValue < 0 /\ currency = balanceCurrency

\* only allow overdraft on reservations in different currency
OverdraftRefused(balanceNewValue, currency, balanceCurrency, previouslyReserved) ==
    balanceNewValue < 0 /\ (currency = balanceCurrency \/ ~previouslyReserved)

\* a commit whose refusal does not set err: the session is committed with
\* the DELETE it made
CommitReservationWrite_RefusalCommits(db, l) ==
    LET previouslyReserved == l.orderID \in DOMAIN db.balance_reserve
        conv == IF l.currency = l.balanceCurrency THEN <<l.value, "">>
                ELSE ConvertCurrency(l.value, l.currency, l.balanceCurrency)
        commitInUserCurrency == conv[1]
        balanceNewValue == l.balanceCurrentValue - commitInUserCurrency
        txID == GenerateID(db)
    IN  IF conv[2] # ""
        THEN [db |-> db, l |-> Return(l, 0, "internal:currency convert", conv[2])]
        ELSE IF OverdraftRefused(balanceNewValue, l.currency, l.balanceCurrency, previouslyReserved)
        THEN [db |-> db,
              l |-> [Return(l, 0, "not_enough_money", "") EXCEPT
                       !.wDel = IF previouslyReserved THEN {l.orderID} ELSE {}]]
        ELSE [db |-> [db EXCEPT !.lastID = txID],
              l |-> [Return(l, txID, "", "") EXCEPT
                       !.txID = txID,
                       !.wDel = IF previouslyReserved THEN {l.orderID} ELSE {},
                       !.wTx = {ChargeRow(l, txID, commitInUserCurrency, balanceNewValue)},
                       !.wBal = {Persist(balanceNewValue)}]]

\* 3) DELETE RESERVATION IF WAS PREVIOUSLY MADE, 4) CALCULATE ACTUAL
\* TRANSACTION VALUE, 5) CREATE TRANSACTION RECORD AND CHARGE FROM BALANCE
CommitReservationWrite(db, l) ==
    LET previouslyReserved == l.orderID \in DOMAIN db.balance_reserve
        conv == IF l.currency = l.balanceCurrency THEN <<l.value, "">>
                ELSE ConvertCurrency(l.value, l.currency, l.balanceCurrency)
        commitInUserCurrency == conv[1]
        balanceNewValue == l.balanceCurrentValue - commitInUserCurrency
        txID == GenerateID(db)
    IN  IF conv[2] # ""
        THEN [db |-> db, l |-> Return(l, 0, "internal:currency convert", conv[2])]
        ELSE IF OverdraftRefused(balanceNewValue, l.currency, l.balanceCurrency, previouslyReserved)
        THEN [db |-> db, l |-> Return(l, 0, "not_enough_money", "not_enough_money")]
        ELSE [db |-> [db EXCEPT !.lastID = txID],
              l |-> [Return(l, txID, "", "") EXCEPT
                       !.txID = txID,
                       !.wDel = IF previouslyReserved THEN {l.orderID} ELSE {},
                       !.wTx = {ChargeRow(l, txID, commitInUserCurrency, balanceNewValue)},
                       !.wBal = {Persist(balanceNewValue)}]]

CommitReservationBlocked(l, oth) ==
    \/ l.pc = "lock" /\ l.userID \in oth.locked
    \/ l.pc = "write" /\ l.orderID \in oth.delOrders

CommitReservationStep(db, l, txID) ==
    CASE l.pc = "init" -> OrderInit(db, l)
      [] l.pc = "lock" -> LockBalance(db, l, "probe")
      [] l.pc = "probe" -> CommitReservationProbe(db, l, txID)
      [] l.pc = "write" -> CommitReservationWrite(db, l)
      [] l.pc = "end" -> Deferred(db, l)

---------------------------------------------------------------------------
(* mutate.go: CancelReservation                                            *)

CancelReservationInit(db, l) ==
    IF l.userID = "" THEN [db |-> db, l |-> Reject(l, "bad_parameter:user id")]
    ELSE IF l.orderID = "" THEN [db |-> db, l |-> Reject(l, "bad_parameter:order id")]
    ELSE [db |-> db, l |-> [l EXCEPT !.pc = "lock"]]

\* 1) LOAD BALANCE AND LOCK FOR UPDATE
CancelReservationLock(db, l) ==
    IF l.userID \notin DOMAIN db.balance
    THEN [db |-> db, l |-> Return(l, 0, "user_not_found", "user_not_found")]
    ELSE LockBalance(db, l, "find")

\* a lookup that takes the reservation of any user
CancelReservationFind_AnyOwner(db, l) ==
    IF l.orderID \notin DOMAIN db.balance_reserve
    THEN [db |-> db, l |-> [l EXCEPT !.pc = "findTx"]]
    ELSE [db |-> db, l |-> [l EXCEPT !.pc = "write"]]

\* 2) FIND RESERVATION
CancelReservationFind(db, l) ==
    IF l.orderID \notin DOMAIN db.balance_reserve
    THEN [db |-> db, l |-> [l EXCEPT !.pc = "findTx"]]
    ELSE IF db.balance_reserve[l.orderID].user_id # l.userID
    THEN [db |-> db, l |-> Return(l, 0, "bad_parameter:user id", "bad_parameter:user id")]
    ELSE [db |-> db, l |-> [l EXCEPT !.pc = "write"]]

\* a cancel that refuses every order without a reservation
CancelReservationFindTx_Strict(db, l) ==
    [db |-> db, l |-> Return(l, 0, "invalid_state", "invalid_state")]

\* no reservation: COUNT(*) of the transactions of the order
CancelReservationFindTx(db, l) ==
    LET orderTxCount == Cardinality(TxOfOrder(db, l.orderID))
    IN  IF orderTxCount = 0
        THEN [db |-> db, l |-> Return(l, 0, "", "")]
        ELSE [db |-> db, l |-> Return(l, 0, "invalid_state", "invalid_state")]

\* a DELETE by user_id instead of order_id
CancelReservationWrite_ByUser(db, l) ==
    [db |-> db, l |-> [Return(l, 0, "", "") EXCEPT !.wDel = ReservesOf(db, l.userID)]]

\* 3) REMOVE RESERVATION
CancelReservationWrite(db, l) ==
    [db |-> db,
     l |-> [Return(l, 0, "", "") EXCEPT
              !.wDel = IF l.orderID \in DOMAIN db.balance_reserve
                       THEN {l.orderID} ELSE {}]]

CancelReservationBlocked(l, oth) ==
    \/ l.pc = "lock" /\ l.userID \in oth.locked
    \/ l.pc = "write" /\ l.orderID \in oth.delOrders

CancelReservationStep(db, l) ==
    CASE l.pc = "init" -> CancelReservationInit(db, l)
      [] l.pc = "lock" -> CancelReservationLock(db, l)
      [] l.pc = "find" -> CancelReservationFind(db, l)
      [] l.pc = "findTx" -> CancelReservationFindTx(db, l)
      [] l.pc = "write" -> CancelReservationWrite(db, l)
      [] l.pc = "end" -> Deferred(db, l)

---------------------------------------------------------------------------
(* query.go: FetchUserBalance                                              *)

RECURSIVE SumPositive(_, _)
SumPositive(reserve, orders) ==
    IF orders = {} THEN 0
    ELSE LET o == CHOOSE x \in orders : TRUE
             v == reserve[o].user_currency_value
         IN  (IF v > 0 THEN v ELSE 0) + SumPositive(reserve, orders \ {o})

\* a balance query that does not take the reserves off
FetchUserBalance_Gross(db, userID) ==
    IF userID = ""
    THEN [err |-> "bad_parameter:user id", currency |-> "", available |-> 0, reserved |-> 0]
    ELSE IF userID \notin DOMAIN db.balance
    THEN [err |-> "user_not_found", currency |-> "", available |-> 0, reserved |-> 0]
    ELSE [err |-> "", currency |-> db.balance[userID].currency,
          available |-> db.balance[userID].current_value,
          reserved |-> SumPositive(db.balance_reserve, ReservesOf(db, userID))]

FetchUserBalance(db, userID) ==
    IF userID = ""
    THEN [err |-> "bad_parameter:user id", currency |-> "", available |-> 0, reserved |-> 0]
    ELSE IF userID \notin DOMAIN db.balance
    THEN [err |-> "user_not_found", currency |-> "", available |-> 0, reserved |-> 0]
    ELSE LET reserved == SumPositive(db.balance_reserve, ReservesOf(db, userID))
             current == db.balance[userID].current_value
         IN  [err |-> "", currency |-> db.balance[userID].currency,
              available |-> IF reserved > 0 THEN current - reserved ELSE current,
              reserved |-> reserved]

---------------------------------------------------------------------------
(* A handler run from its call to its return with no other session beside  *)
(* it.                                                                     *)

\* the next statement of the call l; txID is the row a query without
\* ORDER BY returned
HandlerStep(db, l, txID) ==
    CASE l.op = "TopUp" -> TopUpStep(db, l)
      [] l.op = "Reserve" -> ReserveStep(db, l)
      [] l.op = "Commit" -> CommitReservationStep(db, l, txID)
      [] l.op = "Cancel" -> CancelReservationStep(db, l)

HandlerBlocked(l, oth) ==
    CASE l.op = "TopUp" -> TopUpBlocked(l, oth)
      [] l.op = "Reserve" -> ReserveBlocked(l, oth)
      [] l.op = "Commit" -> CommitReservationBlocked(l, oth)
      [] l.op = "Cancel" -> CancelReservationBlocked(l, oth)

\* the rows the statement at hand may return
Picks(db, l) ==
    IF l.op = "Commit" /\ l.pc = "probe" THEN TxIDsOfOrder(db, l.orderID) ELSE {0}

RECURSIVE Run(_, _)
Run(db, l) ==
    IF l.pc = "done" THEN [db |-> db, l |-> l]
    ELSE LET txID == CHOOSE i \in Picks(db, l) : \A j \in Picks(db, l) : i <= j
             r == HandlerStep(db, l, txID)
         IN  Run(r.db, r.l)

Install(r) ==
    /\ balance' = r.db.balance
    /\ balance_reserve' = r.db.balance_reserve
    /\ transaction' = r.db.transaction
    /\ lastID' = r.db.lastID

---------------------------------------------------------------------------
(* Spec: the handlers called one after the other.                          *)

Init ==
    /\ balance = <<>>
    /\ balance_reserve = <<>>
    /\ transaction = {}
    /\ lastID = 0
    /\ session = [w \in Workers |-> IdleSession]

TopUp(idempotencyKey, userID, currency, value) ==
    /\ Install(Run(Store, NewCall("TopUp", idempotencyKey, userID, currency, value, "", "")))
    /\ UNCHANGED session

Reserve(userID, currency, value, orderID, itemID) ==
    /\ Install(Run(Store, NewCall("Reserve", "", userID, currency, value, orderID, itemID)))
    /\ UNCHANGED session

CommitReservation(userID, currency, value, orderID, itemID) ==
    /\ Install(Run(Store, NewCall("Commit", "", userID, currency, value, orderID, itemID)))
    /\ UNCHANGED session

CancelReservation(userID, orderID, itemID) ==
    /\ Install(Run(Store, NewCall("Cancel", "", userID, "", 0, orderID, itemID)))
    /\ UNCHANGED session

Next ==
    \/ \E k \in SeqKeys, u \in Users, c \in RequestCurrencies, v \in Values :
          TopUp(k, u, c, v)
    \/ \E u \in Users, c \in RequestCurrencies, v \in Values, o \in Orders, i \in Items :
          \/ Reserve(u, c, v, o, i)
          \/ CommitReservation(u, c, v, o, i)
    \/ \E u \in Users, o \in Orders :
          CancelReservation(u, o, "")

Spec == Init /\ [][Next]_vars

---------------------------------------------------------------------------
(* SpecConc: several sessions, one SQL statement at a time.                *)

\* what the sessions beside w hold: the balance rows they locked and the
\* rows they wrote and have not committed
Others(w) ==
    LET rest == Workers \ {w}
    IN  [locked |-> {session[q].userID : q \in {x \in rest : session[x].locked}},
         insKeys |-> {t.idempotency_key :
                        t \in UNION {session[q].wTx : q \in rest}} \ {""},
         insOrders |-> {r.order_id : r \in UNION {session[q].wIns : q \in rest}},
         delOrders |-> UNION {session[q].wDel : q \in rest}]

\* the worker is free again once its handler has returned
Next_(l) == IF l.pc = "done" THEN IdleSession ELSE l

\* a worker takes a request: the handler validates it and makes sure the
\* balance row exists
Call(w, l) ==
    /\ session[w].pc = "idle"
    /\ LET r == HandlerStep(Store, l, 0)
       IN  /\ Install(r)
           /\ session' = [session EXCEPT ![w] = Next_(r.l)]

\* the session of w executes its next statement, unless it has to wait
Statement(w) ==
    /\ session[w].pc # "idle"
    /\ ~HandlerBlocked(session[w], Others(w))
    /\ \E txID \in Picks(Store, session[w]) :
         LET r == HandlerStep(Store, session[w], txID)
         IN  /\ Install(r)
             /\ session' = [session EXCEPT ![w] = Next_(r.l)]

ConcCalls ==
    {NewCall("TopUp", k, u, c, v, "", "") :
        k \in Keys, u \in Users, c \in ConcCurrencies, v \in ConcValues}
    \cup {NewCall(op, "", u, c, v, o, "item") :
        op \in {"Reserve", "Commit"}, u \in Users, c \in ConcCurrencies,
        v \in ConcValues, o \in ConcOrders}
    \cup {NewCall("Cancel", "", u, "", 0, o, "item") : u \in Users, o \in ConcOrders}

NextConc ==
    \E w \in Workers :
        \/ \E l \in ConcCalls : Call(w, l)
        \/ Statement(w)

SpecConc == Init /\ [][NextConc]_vars

---------------------------------------------------------------------------
(* Properties                                                              *)

TopUpsOf(u) == {t \in transaction : t.recipient_id = u}

ChargesOf(u) == {t \in transaction : t.sender_id = u}

RECURSIVE SumRecipientValue(_)
SumRecipientValue(txs) ==
    IF txs = {} THEN 0
    ELSE LET t == CHOOSE x \in txs : TRUE
         IN  t.recipient_value + SumRecipientValue(txs \ {t})

RECURSIVE SumSenderValue(_)
SumSenderValue(txs) ==
    IF txs = {} THEN 0
    ELSE LET t == CHOOSE x \in txs : TRUE
         IN  t.sender_value + SumSenderValue(txs \ {t})

\* current_value of the user's balance row, 0 for a user without a row
CurrentValue(db, u) ==
    IF u \in DOMAIN db.balance THEN db.balance[u].current_value ELSE 0

\* current_value less the user_currency_value of the user's reserves
Spendable(db, u) ==
    CurrentValue(db, u) - SumReserve(db.balance_reserve, ReservesOf(db, u))

\* C1: in every committed state the current_value of every user equals the
\* sum of recipient_value over the user's top-up transactions less the sum
\* of sender_value over the user's charge transactions
C1_BalanceIsSumOfTransactions ==
    \A u \in DOMAIN balance :
        balance[u].current_value =
            SumRecipientValue(TopUpsOf(u)) - SumSenderValue(ChargesOf(u))

\* the rows at rest that belong to the order: its reserve row and its
\* transactions
RowsOfOrder(o) ==
    (IF o \in DOMAIN balance_reserve THEN 1 ELSE 0) + Cardinality(TxOfOrder(Store, o))

\* C2: at rest an order has at most one row, a reserve row or one
\* transaction, never two rows
C2_AtMostOneRowPerOrder ==
    \A o \in Orders : RowsOfOrder(o) <= 1

TxOfKey(key) == {t \in transaction : t.idempotency_key = key}

\* C3: every idempotency key is carried by at most one transaction, however
\* the calls interleave
C3_KeyOnAtMostOneTransaction ==
    \A key \in Keys : Cardinality(TxOfKey(key)) <= 1

\* a TopUp that passed its probe lost the race for its key: the key has its
\* transaction and the INSERT of the second one was refused
C3_Witness ==
    \E w \in Workers :
        /\ session[w].op = "TopUp" /\ session[w].pc = "end"
        /\ session[w].err = "unique_violation"
        /\ Cardinality(TxOfKey(session[w].idempotencyKey)) = 1

\* the item ids a repeated call may carry
ItemArgs == {"", "item", "other"}

\* the call that ended in db left every transaction, every reserve and the
\* current_value of every user as they are
LedgerUnchanged(db) ==
    /\ db.transaction = transaction
    /\ db.balance_reserve = balance_reserve
    /\ \A u \in Users : CurrentValue(db, u) = CurrentValue(Store, u)

\* the outcome of the TopUp call made in the present state
TopUpCall(key, u, c, v) == Run(Store, NewCall("TopUp", key, u, c, v, "", ""))

\* C4: a TopUp whose idempotency key is already on a transaction returns the
\* id of that transaction without an error, credits nothing and records no
\* transaction, whoever makes the well-formed call with whatever currency
\* and value
C4_RepeatedTopUpIsNoOp ==
    \A key \in Keys, u \in Users, c \in RequestCurrencies, v \in Values :
        TxOfKey(key) # {} =>
            LET r == TopUpCall(key, u, c, v)
            IN  /\ r.l.retErr = ""
                /\ r.l.retID \in {t.id : t \in TxOfKey(key)}
                /\ LedgerUnchanged(r.db)

\* a key is on a transaction and the TopUp repeated with it, for another
\* value, returns that transaction
C4_Witness ==
    \E t \in transaction :
        /\ t.idempotency_key \in Keys
        /\ \E v \in Values :
            /\ v # t.transaction_value
            /\ TopUpCall(t.idempotency_key, t.recipient_id,
                         t.transaction_currency, v).l.retID = t.id

\* the outcome of the CommitReservation call made in the present state
CommitCall(u, c, v, o, i) == Run(Store, NewCall("Commit", "", u, c, v, o, i))

\* C5: a Commit for an order that already has a transaction returns the id of
\* that transaction without an error, charges nothing and records nothing,
\* whatever user, currency, value and item the well-formed call carries
C5_RepeatedCommitIsNoOp ==
    \A u \in Users, c \in RequestCurrencies, v \in Values, o \in Orders, i \in ItemArgs :
        TxOfOrder(Store, o) # {} =>
            LET r == CommitCall(u, c, v, o, i)
            IN  /\ r.l.retErr = ""
                /\ r.l.retID \in {t.id : t \in TxOfOrder(Store, o)}
                /\ LedgerUnchanged(r.db)

\* an order is committed and the Commit repeated for it, with a value the
\* sender could still pay and another item, returns its transaction
C5_Witness ==
    \E t \in transaction :
        /\ t.order_id \in Orders
        /\ \E v \in Values :
            /\ v <= CurrentValue(Store, t.sender_id)
            /\ CommitCall(t.sender_id, t.sender_currency, v, t.order_id, "other").l.retID = t.id

\* the outcome of the Reserve call made in the present state
ReserveCall(u, c, v, o, i) == Run(Store, NewCall("Reserve", "", u, c, v, o, i))

\* C6: a Reserve for a (user, order) that already has its reserve row
\* succeeds and leaves the reserves as they are, whatever currency, value
\* and item it carries and whether or not the spendable balance covers it
C6_RepeatedReserveIsNoOp ==
    \A o \in DOMAIN balance_reserve, c \in RequestCurrencies, v \in Values, i \in ItemArgs :
        LET r == ReserveCall(balance_reserve[o].user_id, c, v, o, i)
        IN  /\ r.l.retErr = ""
            /\ LedgerUnchanged(r.db)

\* an order is reserved and its user's spendable balance no longer covers
\* the value the repeated Reserve carries, which succeeds
C6_Witness ==
    \E o \in DOMAIN balance_reserve :
        LET u == balance_reserve[o].user_id
        IN  \E v \in Values :
              /\ balance[u].currency = "EUR"
              /\ v > Spendable(Store, u)
              /\ ReserveCall(u, "EUR", v, o, "other").l.retErr = ""

\* the currency the balance of u is kept in once a call in currency c has
\* made sure the row exists
HomeCurrency(u, c) == IF u \in DOMAIN balance THEN balance[u].currency ELSE c

\* what a Commit of v in currency c takes from the balance of u
ChargeOf(u, c, v) ==
    IF c = HomeCurrency(u, c) THEN v
    ELSE ConvertCurrency(v, c, HomeCurrency(u, c))[1]

\* a Commit of an order without a transaction whose charge exceeds the
\* current_value succeeds exactly when the order has a reserve row and the
\* commit currency is not the home currency, and fails with
\* not_enough_money otherwise
C7_OverdraftRule ==
    \A u \in Users, c \in RequestCurrencies, v \in Values, o \in Orders :
        (TxOfOrder(Store, o) = {} /\ CurrentValue(Store, u) - ChargeOf(u, c, v) < 0) =>
            LET r == CommitCall(u, c, v, o, "item")
            IN  IF o \in DOMAIN balance_reserve /\ c # HomeCurrency(u, c)
                THEN r.l.retErr = ""
                ELSE r.l.retErr = "not_enough_money"

\* a current_value that goes from non-negative to negative does so in a
\* step that deletes the reserve row of an order and records its charge in
\* a currency other than the sender's
C7_NegativeOnlyByCrossCommit ==
    \A u \in DOMAIN balance :
        (balance[u].current_value >= 0 /\ balance'[u].current_value < 0) =>
            \E t \in transaction' \ transaction :
                /\ t.sender_id = u
                /\ t.transaction_currency # t.sender_currency
                /\ t.order_id \in DOMAIN balance_reserve
                /\ t.order_id \notin DOMAIN balance_reserve'

\* C7: a Commit may take current_value below zero only for an order that
\* has a reserve row and in a currency other than the home currency; every
\* other Commit that would do so fails with not_enough_money, and
\* current_value turns negative through no other step
C7_OverdraftOnlyOnCrossCurrencyReserve ==
    []C7_OverdraftRule /\ [][C7_NegativeOnlyByCrossCommit]_vars

\* a reserved order was committed in another currency for more than the
\* balance held: the current_value is negative
C7_Witness ==
    \E t \in transaction :
        /\ t.sender_id \in DOMAIN balance
        /\ t.transaction_currency # t.sender_currency
        /\ t.sender_balance_after < 0
        /\ balance[t.sender_id].current_value < 0

\* every transaction and every reserve of u is in the currency of the
\* balance of u
SingleCurrencyUser(u) ==
    /\ \A t \in TopUpsOf(u) \cup ChargesOf(u) :
           t.transaction_currency = balance[u].currency
    /\ \A o \in ReservesOf(Store, u) :
           balance_reserve[o].currency = balance[u].currency

\* C8: the available balance FetchBalance reports for a user whose top-ups,
\* reserves and commits are all in the home currency is never negative
C8_AvailableNeverNegativeInHomeCurrency ==
    \A u \in DOMAIN balance :
        SingleCurrencyUser(u) => FetchUserBalance(Store, u).available >= 0

\* C9: with the rate table unchanged, the spendable balance of every user,
\* current_value less the reserves, is never negative
C9_SpendableNeverNegative ==
    \A u \in DOMAIN balance : Spendable(Store, u) >= 0

\* R: what a Reserve of v in currency c claims of the balance of u, the
\* value itself in the home currency and 106% of it converted otherwise
ReservedFor(u, c, v) ==
    IF c = HomeCurrency(u, c) THEN v
    ELSE ConvertCurrency((v * 106) \div 100, c, HomeCurrency(u, c))[1]

\* the reserves once the row of order o, claiming held of the balance of u,
\* is added to them
WithReserve(u, c, v, o, i, held) ==
    [x \in DOMAIN balance_reserve \cup {o} |->
        IF x = o
        THEN [user_id |-> u, item_id |-> i, currency |-> c,
              value |-> v, user_currency_value |-> held]
        ELSE balance_reserve[x]]

\* a Reserve for an order without a reserve row and without a transaction
\* succeeds exactly when R is within the spendable balance and then adds
\* the one row that holds Held(R); otherwise it fails with not_enough_money
\* and adds nothing
ReserveRule(Held(_)) ==
    \A u \in Users, c \in RequestCurrencies, v \in Values, o \in Orders, i \in ItemArgs :
        (o \notin DOMAIN balance_reserve /\ TxOfOrder(Store, o) = {}) =>
            LET R == ReservedFor(u, c, v)
                r == ReserveCall(u, c, v, o, i)
            IN  IF R <= Spendable(Store, u)
                THEN /\ r.l.retErr = ""
                     /\ r.db.balance_reserve = WithReserve(u, c, v, o, i, Held(R))
                     /\ r.db.transaction = transaction
                     /\ CurrentValue(r.db, u) = CurrentValue(Store, u)
                     /\ Spendable(r.db, u) >= 0
                ELSE /\ r.l.retErr = "not_enough_money"
                     /\ LedgerUnchanged(r.db)

Unrounded(x) == x

\* C10 as stated: the row a successful Reserve adds holds R itself
C10_ReserveHoldsExactlyR == ReserveRule(Unrounded)

\* C10: a Reserve for an order without a reserve row and without a
\* transaction succeeds if and only if R is at most the spendable balance;
\* it then adds exactly one reserve row, holding R rounded half-even to two
\* decimals, and leaves the spendable balance non-negative; otherwise it
\* fails with not_enough_money and adds nothing
C10_ReserveHoldsRoundedR == ReserveRule(RoundBank)

\* a reserve made in another currency holds the rounded R, which is not R
C10_Witness ==
    \E o \in DOMAIN balance_reserve :
        LET row == balance_reserve[o]
            R == ConvertCurrency((row.value * 106) \div 100, row.currency,
                                 balance[row.user_id].currency)[1]
        IN  /\ row.currency # balance[row.user_id].currency
            /\ row.user_currency_value = RoundBank(R)
            /\ RoundBank(R) # R

---------------------------------------------------------------------------
(* Errors and cancellation of reservations                                 *)

\* the outcome of the CancelReservation call made in the present state
CancelCall(u, o, i) == Run(Store, NewCall("Cancel", "", u, "", 0, o, i))

\* the arguments a request may carry, the malformed ones among them
AnyUsers == Users \cup {""}

AnyKeys == Keys \cup {""}

AnyCurrencies == RequestCurrencies \cup {"xxx"}

AnyValues == Values \cup {0}

AnyOrders == Orders \cup {""}

\* the calls of the four handlers, well-formed or not
AnyCalls ==
    {NewCall("TopUp", k, u, c, v, "", "") :
        k \in AnyKeys, u \in AnyUsers, c \in AnyCurrencies, v \in AnyValues}
    \cup {NewCall(op, "", u, c, v, o, "item") :
        op \in {"Reserve", "Commit"}, u \in AnyUsers, c \in AnyCurrencies,
        v \in AnyValues, o \in AnyOrders}
    \cup {NewCall("Cancel", "", u, "", 0, o, "item") : u \in AnyUsers, o \in AnyOrders}

\* the validation and domain errors of the handlers
DomainErrors ==
    {"bad_parameter:idempotency key", "bad_parameter:user id",
     "bad_parameter:currency", "bad_parameter:value", "bad_parameter:order id",
     "not_enough_money", "user_not_found", "invalid_state"}
    \cup {"invalid_currency:" \o c : c \in AnyCurrencies}

\* C13: a call that returns a validation or domain error leaves the
\* balance, reserve and transaction relations exactly as they were
C13_ErrorLeavesRelationsAsTheyWere ==
    \A call \in AnyCalls :
        LET r == Run(Store, call)
        IN  r.l.retErr \in DomainErrors =>
              /\ r.db.balance = balance
              /\ r.db.balance_reserve = balance_reserve
              /\ r.db.transaction = transaction

\* once an order has its transaction, every Reserve for it fails with
\* invalid_state and every Cancel for it fails with CancelErr(user); neither
\* changes a current_value, a reserve or a transaction
CommittedOrderRule(CancelErr(_)) ==
    \A o \in Orders :
        TxOfOrder(Store, o) # {} =>
            /\ \A u \in Users, c \in RequestCurrencies, v \in Values, i \in ItemArgs :
                 LET r == ReserveCall(u, c, v, o, i)
                 IN  r.l.retErr = "invalid_state" /\ LedgerUnchanged(r.db)
            /\ \A u \in Users, i \in ItemArgs :
                 LET r == CancelCall(u, o, i)
                 IN  r.l.retErr = CancelErr(u) /\ LedgerUnchanged(r.db)

AlwaysInvalidState(u) == "invalid_state"

\* the lock of CancelReservation comes first: a caller without a balance
\* row gets user_not_found
InvalidStateForKnownUser(u) ==
    IF u \in DOMAIN balance THEN "invalid_state" ELSE "user_not_found"

\* C15 as stated: every Reserve and every Cancel of a committed order fails
\* with invalid_state and changes nothing
C15_CommittedOrderRefusesAll == CommittedOrderRule(AlwaysInvalidState)

\* C15: once an order has its transaction, every later Reserve for it fails
\* with invalid_state and every later Cancel for it fails with invalid_state
\* when the caller has a balance row and with user_not_found otherwise;
\* neither changes a current_value, a reserve or a transaction
C15_CommittedOrderIsTerminal == CommittedOrderRule(InvalidStateForKnownUser)

\* an order is committed; its sender could pay for a new reservation, yet
\* Reserve and Cancel for the order are refused with invalid_state
C15_Witness ==
    \E t \in transaction :
        /\ t.order_id \in Orders
        /\ CurrentValue(Store, t.sender_id) >= Cent
        /\ ReserveCall(t.sender_id, t.sender_currency, Cent, t.order_id, "item").l.retErr
               = "invalid_state"
        /\ CancelCall(t.sender_id, t.order_id, "item").l.retErr = "invalid_state"

\* the reserves without the row of order o
WithoutReserve(o) ==
    [x \in (DOMAIN balance_reserve) \ {o} |-> balance_reserve[x]]

\* C16: Cancel by the owner of an active reservation deletes exactly that
\* reserve row: the user's reserved total falls by the user_currency_value
\* of the row, the balance rows are as they were and no transaction is
\* recorded
C16_CancelDeletesExactlyTheRow ==
    \A o \in DOMAIN balance_reserve, i \in ItemArgs :
        LET u == balance_reserve[o].user_id
            r == CancelCall(u, o, i)
        IN  /\ r.l.retErr = ""
            /\ r.db.balance_reserve = WithoutReserve(o)
            /\ SumReserve(r.db.balance_reserve, ReservesOf(r.db, u))
                 = SumReserve(balance_reserve, ReservesOf(Store, u))
                     - balance_reserve[o].user_currency_value
            /\ r.db.balance = balance
            /\ r.db.transaction = transaction

\* a user holds two reservations and the Cancel of one keeps the other
C16_Witness ==
    \E o1 \in DOMAIN balance_reserve, o2 \in DOMAIN balance_reserve :
        /\ o1 # o2
        /\ balance_reserve[o1].user_id = balance_reserve[o2].user_id
        /\ o2 \in DOMAIN CancelCall(balance_reserve[o1].user_id, o1, "").db.balance_reserve

\* the order has no reserve row and no transaction
UnknownOrder(db, o) ==
    o \notin DOMAIN db.balance_reserve /\ TxOfOrder(db, o) = {}

\* Cancel of an order without a reserve row and without a transaction
\* changes nothing and succeeds for the users of Known; a Cancel repeated
\* after it succeeded succeeds again and changes nothing
UnknownOrderRule(Known) ==
    /\ \A u \in Users, o \in Orders, i \in ItemArgs :
         UnknownOrder(Store, o) =>
            LET r == CancelCall(u, o, i)
            IN  /\ r.db = Store
                /\ r.l.retErr = IF u \in Known THEN "" ELSE "user_not_found"
    /\ \A o \in DOMAIN balance_reserve :
         LET call == NewCall("Cancel", "", balance_reserve[o].user_id, "", 0, o, "")
             first == Run(Store, call)
             again == Run(first.db, call)
         IN  first.l.retErr = "" /\ again.l.retErr = "" /\ again.db = first.db

\* C17 as stated: Cancel of an unknown order succeeds whoever calls it
C17_CancelUnknownOrderSucceeds == UnknownOrderRule(Users)

\* C17: Cancel of an order that has no reserve row and no transaction
\* changes no state; it succeeds when the caller has a balance row and fails
\* with user_not_found otherwise; repeating a Cancel that succeeded succeeds
\* again
C17_CancelUnknownOrderIsNoOp == UnknownOrderRule(DOMAIN balance)

\* a user with a balance row cancels an order nobody reserved or committed,
\* and a reservation is there whose Cancel can be repeated
C17_Witness ==
    /\ \E u \in DOMAIN balance, o \in Orders :
         UnknownOrder(Store, o) /\ CancelCall(u, o, "").l.retErr = ""
    /\ balance_reserve # <<>>

\* Cancel of an order reserved by another user fails with ForeignErr(user)
\* and changes nothing
ForeignCancelRule(ForeignErr(_)) ==
    \A o \in DOMAIN balance_reserve, u \in Users, i \in ItemArgs :
        u # balance_reserve[o].user_id =>
            LET r == CancelCall(u, o, i)
            IN  r.l.retErr = ForeignErr(u) /\ r.db = Store

AlwaysBadUser(u) == "bad_parameter:user id"

BadUserForKnownUser(u) ==
    IF u \in DOMAIN balance THEN "bad_parameter:user id" ELSE "user_not_found"

\* C18 as stated: Cancel of another user's reservation fails with
\* bad_parameter naming the user id
C18_ForeignCancelIsBadParameter == ForeignCancelRule(AlwaysBadUser)

\* C18: Cancel of an order whose reservation belongs to another user fails,
\* with bad_parameter naming the user id when the caller has a balance row
\* and with user_not_found otherwise; the reservation and its owner's
\* reserved total stay as they are
C18_ForeignCancelIsRefused == ForeignCancelRule(BadUserForKnownUser)

\* a user with a balance row is refused the Cancel of another user's
\* reservation
C18_Witness ==
    \E o \in DOMAIN balance_reserve, u \in DOMAIN balance :
        /\ u # balance_reserve[o].user_id
        /\ CancelCall(u, o, "").l.retErr = "bad_parameter:user id"

\* every amount a transaction records for a user is in the currency of the
\* user's balance row: the requested value itself, or its conversion
AmountsInHomeCurrency ==
    \A t \in transaction :
        /\ t.recipient_id # "" =>
             /\ t.recipient_currency = balance[t.recipient_id].currency
             /\ t.recipient_value =
                  IF t.transaction_currency = t.recipient_currency
                  THEN t.transaction_value
                  ELSE Persist(ConvertCurrency(t.transaction_value,
                                 t.transaction_currency, t.recipient_currency)[1])
        /\ t.sender_id # "" =>
             /\ t.sender_currency = balance[t.sender_id].currency
             /\ t.sender_value =
                  IF t.transaction_currency = t.sender_currency
                  THEN t.transaction_value
                  ELSE Persist(ConvertCurrency(t.transaction_value,
                                 t.transaction_currency, t.sender_currency)[1])

\* a balance row stays and keeps its currency
CurrencyKept ==
    \A u \in DOMAIN balance :
        u \in DOMAIN balance' /\ balance'[u].currency = balance[u].currency

\* C19: once a user has a balance row its currency never changes, whatever
\* the handler and the request currency; the amounts of requests in other
\* currencies are converted into it
C19_HomeCurrencyIsStable ==
    []AmountsInHomeCurrency /\ [][CurrencyKept]_vars

\* a user was credited and charged in a currency other than the home
\* currency, which the balance row still has
C19_Witness ==
    \E t1 \in transaction, t2 \in transaction :
        /\ t1.recipient_id # "" /\ t2.sender_id = t1.recipient_id
        /\ t1.transaction_currency # t1.recipient_currency
        /\ t2.transaction_currency # t2.sender_currency
        /\ balance[t1.recipient_id].currency = t1.recipient_currency

\* a call of TopUp, Reserve or Commit that names a currency outside the
\* rate table fails with the error err and changes nothing
UnknownCurrencyRule(err) ==
    /\ \A k \in Keys, u \in Users, v \in AnyValues :
         LET r == TopUpCall(k, u, "xxx", v)
         IN  r.l.retErr = err /\ r.db = Store
    /\ \A u \in Users, v \in AnyValues, o \in AnyOrders, i \in ItemArgs :
         /\ LET r == ReserveCall(u, "xxx", v, o, i)
            IN  r.l.retErr = err /\ r.db = Store
         /\ LET r == CommitCall(u, "xxx", v, o, i)
            IN  r.l.retErr = err /\ r.db = Store

\* C20 as stated: the error is invalid_currency with the currency code
C20_UnknownCurrencyIsInvalidCurrency == UnknownCurrencyRule("invalid_currency:xxx")

\* C20: TopUp, Reserve and Commit called with a currency that is not in the
\* rate table fail with bad_parameter naming the currency and change
\* nothing
C20_UnknownCurrencyIsBadParameter == UnknownCurrencyRule("bad_parameter:currency")

\* a user with money and a reservation is refused a request in a currency
\* outside the rate table
C20_Witness ==
    \E o \in DOMAIN balance_reserve :
        LET u == balance_reserve[o].user_id
        IN  /\ balance[u].current_value > 0
            /\ CommitCall(u, "xxx", Cent, o, "item").l.retErr = "bad_parameter:currency"
            /\ ~IsCurrencyValid("xxx")

---------------------------------------------------------------------------
(* SpecCtx: the handlers called one after the other, the context of a      *)
(* request being cancelled (or its deadline passing) at some statement.    *)

\* the statements at which the context of a request may be found done
CtxPoints == {"lock", "sum", "probe", "probeTx", "find", "findTx", "write", "end"}

\* a store call made with a context that is done returns the context's
\* error, which the handler wraps, assigns to err and returns
StatementCtxDone(db, l) ==
    [db |-> db, l |-> Return(l, 0, "internal:context canceled", "context canceled")]

\* the deferred func with a context that is done: tx.Commit(ctx) and
\* tx.Rollback(ctx) fail, their errors are dropped, and the released
\* connection discards the session; what the handler returns was fixed
\* before
DeferredCtxDone(db, l) ==
    [db |-> db, l |-> [Deferred(db, l).l EXCEPT !.ended = "rollback"]]

\* the handler call l run to its return, its context done from the
\* statement at on; ctxDone tells whether that statement was reached
RECURSIVE RunCtx(_, _, _, _)
RunCtx(db, l, at, ctxDone) ==
    IF l.pc = "done" THEN [db |-> db, l |-> l, ctxDone |-> ctxDone]
    ELSE LET fired == ctxDone \/ l.pc = at
             r == IF ~fired THEN HandlerStep(db, l, CHOOSE i \in Picks(db, l) :
                                                       \A j \in Picks(db, l) : i <= j)
                  ELSE IF l.pc = "end" THEN DeferredCtxDone(db, l)
                  ELSE StatementCtxDone(db, l)
         IN  RunCtx(r.db, r.l, at, fired)

\* the calls of SpecCtx: those of one user
CtxCalls ==
    {NewCall("TopUp", k, "u1", c, v, "", "") :
        k \in SeqKeys, c \in RequestCurrencies, v \in Values}
    \cup {NewCall(op, "", "u1", c, v, o, "item") :
        op \in {"Reserve", "Commit"}, c \in RequestCurrencies, v \in Values, o \in Orders}
    \cup {NewCall("Cancel", "", "u1", "", 0, o, "") : o \in Orders}

\* a call whose context is done at the statement at, if it gets there; no
\* handler has a statement "never" (MaxID bounds the ids that calls without
\* a committed transaction use up)
CallCtx(l, at) ==
    /\ RunCtx(Store, l, at, FALSE).db.lastID <= MaxID
    /\ Install(RunCtx(Store, l, at, FALSE))
    /\ UNCHANGED session

NextCtx ==
    \E l \in CtxCalls, at \in CtxPoints \cup {"never"} : CallCtx(l, at)

SpecCtx == Init /\ [][NextCtx]_vars

\* C14: a call whose context is done before the commit of its session takes
\* effect returns an error and its session is rolled back; a call that
\* returns success has committed the writes of its session
C14_SuccessMeansCommitted ==
    \A l \in CtxCalls, at \in CtxPoints :
        LET r == RunCtx(Store, l, at, FALSE)
        IN  /\ r.ctxDone => r.l.retErr # "" /\ r.l.ended = "rollback"
            /\ r.l.retErr = "" =>
                 /\ r.l.ended = "commit"
                 /\ r.db = Run(Store, l).db


---------------------------------------------------------------------------
(* Concurrent retries.                                                     *)

\* the session l is about to return the id of the one transaction among txs,
\* with success
ReturnsTheTransaction(l, txs) ==
    /\ Cardinality(txs) = 1
    /\ l.retErr = ""
    /\ l.retID \in {t.id : t \in txs}

\* C12: a key and an order have at most one transaction, and a TopUp or a
\* Commit that returns after another session committed the transaction of
\* its key or of its order returns that transaction's id with success
C12_ConcurrentRetriesSerialize ==
    /\ \A key \in Keys : Cardinality(TxOfKey(key)) <= 1
    /\ \A o \in Orders : Cardinality(TxOfOrder(Store, o)) <= 1
    /\ \A w \in Workers :
         LET l == session[w]
         IN  l.pc = "end" =>
               /\ l.op = "TopUp" /\ TxOfKey(l.idempotencyKey) # {} =>
                    ReturnsTheTransaction(l, TxOfKey(l.idempotencyKey))
               /\ l.op = "Commit" /\ TxOfOrder(Store, l.orderID) # {} =>
                    ReturnsTheTransaction(l, TxOfOrder(Store, l.orderID))

---------------------------------------------------------------------------
(* SpecUser: the sessions of one user side by side, one call per worker,   *)
(* after at most one earlier top-up. A worker keeps the call it made and   *)
(* what the call returned.                                                 *)

SeedKey == "k0"

SeedCalls ==
    {NewCall("TopUp", SeedKey, "u1", c, v, "", "") : c \in RequestCurrencies, v \in Values}

UserCalls ==
    {NewCall("TopUp", k, "u1", c, Cent, "", "") : k \in Keys, c \in RequestCurrencies}
    \cup {NewCall(op, "", "u1", c, Cent, o, "item") :
        op \in {"Reserve", "Commit"}, c \in RequestCurrencies, o \in Orders}
    \cup {NewCall("Cancel", "", "u1", "", 0, o, "item") : o \in Orders}

EmptyStore == [balance |-> <<>>, balance_reserve |-> <<>>, transaction |-> {}, lastID |-> 0]

\* a top-up that ended before any other call began
Seed(l) ==
    /\ Store = EmptyStore
    /\ \A w \in Workers : session[w].op = "Idle"
    /\ Install(Run(Store, l))
    /\ UNCHANGED session

\* a worker takes its request: the handler validates it and makes sure the
\* balance row exists
CallUser(w, l) ==
    /\ session[w].op = "Idle"
    /\ LET r == HandlerStep(Store, l, 0)
       IN  /\ Install(r)
           /\ session' = [session EXCEPT ![w] = r.l]

\* the session of w executes its next statement, unless it has to wait
StatementUser(w) ==
    /\ session[w].pc \notin {"idle", "done"}
    /\ ~HandlerBlocked(session[w], Others(w))
    /\ \E txID \in Picks(Store, session[w]) :
         LET r == HandlerStep(Store, session[w], txID)
         IN  /\ Install(r)
             /\ session' = [session EXCEPT ![w] = r.l]

NextUser ==
    \/ \E l \in SeedCalls : Seed(l)
    \/ \E w \in Workers :
          \/ \E l \in UserCalls : CallUser(w, l)
          \/ StatementUser(w)

SpecUser == Init /\ [][NextUser]_vars

\* the workers that made a call
Callers == {w \in Workers : session[w].op # "Idle"}

\* the call a worker made
CallOf(w) ==
    LET l == session[w]
    IN  NewCall(l.op, l.idempotencyKey, l.userID, l.currency, l.value, l.orderID, l.itemID)

\* the store before the first call of a worker
StoreBefore ==
    IF TxOfKey(SeedKey) = {} THEN EmptyStore
    ELSE LET t == CHOOSE x \in TxOfKey(SeedKey) : TRUE
         IN  Run(EmptyStore, NewCall("TopUp", SeedKey, "u1", t.transaction_currency,
                                     t.transaction_value, "", "")).db

\* a transaction row without its id (ids are snowflakes: they say nothing
\* but the row they name)
WithoutID(t) == [f \in (DOMAIN t) \ {"id"} |-> t[f]]

\* what a caller sees of a finished call: the error and the transaction named
\* by the id it got
Seen(db, l) ==
    [retErr |-> l.retErr, tx |-> {WithoutID(t) : t \in {x \in db.transaction : x.id = l.retID}}]

\* what is left in the store
Left(db) ==
    [balance |-> db.balance, balance_reserve |-> db.balance_reserve,
     transaction |-> {WithoutID(t) : t \in db.transaction}]

\* the calls of the workers made one after the other in the order `order`,
\* from the store db: the store left and what each call returned
RECURSIVE Serial(_, _, _)
Serial(db, order, seen) ==
    IF order = <<>> THEN [db |-> db, seen |-> seen]
    ELSE LET r == Run(db, CallOf(Head(order)))
         IN  Serial(r.db, Tail(order), seen @@ (Head(order) :> Seen(r.db, r.l)))

\* the orders in which the callers can be put
Orderings ==
    {order \in UNION {[1 .. n -> Callers] : n \in {Cardinality(Callers)}} :
        \A i, j \in DOMAIN order : i # j => order[i] # order[j]}

\* C11: once the calls of a user have returned, what they returned and what
\* is left in the store are those of the same calls made one after the
\* other in some order
C11_OneUserLinearizable ==
    (\A w \in Callers : session[w].pc = "done") =>
        \E order \in Orderings :
            LET r == Serial(StoreBefore, order, <<>>)
            IN  /\ Left(r.db) = Left(Store)
                /\ \A w \in Callers : r.seen[w] = Seen(Store, session[w])

---------------------------------------------------------------------------
(* Queries.                                                                *)

\* C21: FetchUserBalance of a user with a balance row returns the home
\* currency, reserved = the sum of user_currency_value over the user's
\* reserve rows, never negative, and available = current_value - reserved;
\* for a user without a balance row it returns user_not_found
C21_FetchBalanceSplitsCurrentValue ==
    \A u \in Users :
        LET r == FetchUserBalance(Store, u)
        IN  IF u \in DOMAIN balance
            THEN /\ r.err = ""
                 /\ r.currency = balance[u].currency
                 /\ r.reserved = SumReserve(balance_reserve, ReservesOf(Store, u))
                 /\ r.reserved >= 0
                 /\ r.available = balance[u].current_value - r.reserved
                 /\ r.available + r.reserved = balance[u].current_value
            ELSE r.err = "user_not_found"

\* one user has money reserved while the other has no balance row
C21_Witness ==
    /\ \E u \in Users : u \in DOMAIN balance /\ FetchUserBalance(Store, u).reserved > 0
    /\ \E u \in Users : u \notin DOMAIN balance

---------------------------------------------------------------------------
(* SpecConvert: ConvertCurrency called on the arguments of one call, which *)
(* the variable session holds with what the call returned.                 *)

\* the values converted: a negative one, zero, the request amounts and the
\* smallest amount carried
ConvertValues == {0 - Cent, 0, 1} \cup Values

\* the currency codes converted: those of the rate table and two others
ConvertCurrencies == (DOMAIN rates) \cup {"xxx", "yyy"}

InitConvert ==
    /\ balance = <<>>
    /\ balance_reserve = <<>>
    /\ transaction = {}
    /\ lastID = 0
    /\ session \in [pc : {"call"}, value : ConvertValues, from : ConvertCurrencies,
                    to : ConvertCurrencies, out : {0}, err : {""}]

ConvertCurrencyCall ==
    /\ session.pc = "call"
    /\ LET r == ConvertCurrency(session.value, session.from, session.to)
       IN  session' = [session EXCEPT !.pc = "return", !.out = r[1], !.err = r[2]]
    /\ UNCHANGED <<balance, balance_reserve, transaction, lastID>>

NextConvert == ConvertCurrencyCall

SpecConvert == InitConvert /\ [][NextConvert]_vars

\* C26: ConvertCurrency(v, from, to) answers, the first case that applies:
\* bad_parameter(value) for v < 0, bad_parameter(currency) for from = to,
\* invalid_currency(from) for from not in the table, invalid_currency(to)
\* for to not in the table, zero for v = 0, and otherwise v divided by
\* rates[from] unless from is the base currency, times rates[to] unless to
\* is the base currency
C26_ConvertCurrencyChecksInOrder ==
    session.pc = "return" =>
        LET v == session.value
            from == session.from
            to == session.to
            inBase == IF from = baseCurrency THEN v ELSE DecimalDiv(v, rates[from])
        IN  <<session.out, session.err>> =
              CASE v < 0 -> <<0, "bad_parameter:value">>
                [] v >= 0 /\ from = to -> <<0, "bad_parameter:currency">>
                [] v >= 0 /\ from # to /\ from \notin DOMAIN rates ->
                     <<0, "invalid_currency:" \o from>>
                [] v >= 0 /\ from # to /\ from \in DOMAIN rates /\ to \notin DOMAIN rates ->
                     <<0, "invalid_currency:" \o to>>
                [] v = 0 /\ from # to /\ from \in DOMAIN rates /\ to \in DOMAIN rates ->
                     <<0, "">>
                [] v > 0 /\ from # to /\ from \in DOMAIN rates /\ to \in DOMAIN rates ->
                     <<IF to = baseCurrency THEN inBase ELSE inBase * rates[to], "">>

\* a conversion between two currencies neither of which is the base
\* currency has returned
C26_Witness ==
    /\ session.pc = "return"
    /\ session.err = ""
    /\ session.out > 0
    /\ baseCurrency \notin {session.from, session.to}

---------------------------------------------------------------------------
(* Failed calls.                                                           *)

\* C28: a CommitReservation that returns not_enough_money leaves the
\* reserve rows, the reserve row of its order among them, the transactions
\* and every current_value as they were, and with them the sum reserved
\* for the user
C28_RefusedCommitKeepsTheReserve ==
    \A u \in Users, c \in RequestCurrencies, v \in Values, o \in Orders, i \in Items :
        LET r == CommitCall(u, c, v, o, i)
        IN  r.l.retErr = "not_enough_money" =>
              /\ r.l.ended = "rollback"
              /\ o \in DOMAIN balance_reserve => o \in DOMAIN r.db.balance_reserve
              /\ LedgerUnchanged(r.db)
              /\ FetchUserBalance(r.db, u).reserved = SumReserve(balance_reserve, ReservesOf(Store, u))

\* the commit of a reserved order for more than the user has is refused
C28_Witness ==
    \E u \in Users, c \in RequestCurrencies, v \in Values, o \in Orders, i \in Items :
        /\ o \in DOMAIN balance_reserve
        /\ balance_reserve[o].user_id = u
        /\ CommitCall(u, c, v, o, i).l.retErr = "not_enough_money"

\* a Reserve for a user without a balance row returns Refusal(o) and leaves
\* the user with a balance row: FetchUserBalance then returns the currency
\* of the request, nothing available and nothing reserved
NewUserReserveRule(Refusal(_)) ==
    \A u \in Users, c \in RequestCurrencies, v \in Values, o \in Orders, i \in Items :
        u \notin DOMAIN balance =>
            LET r == ReserveCall(u, c, v, o, i)
            IN  /\ r.l.retErr = Refusal(o)
                /\ FetchUserBalance(r.db, u) =
                     [err |-> "", currency |-> c, available |-> 0, reserved |-> 0]

AlwaysNotEnoughMoney(o) == "not_enough_money"

NotEnoughMoneyUnlessCommitted(o) ==
    IF TxOfOrder(Store, o) # {} THEN "invalid_state" ELSE "not_enough_money"

\* C29 as stated: Reserve for a user without a balance row returns
\* not_enough_money, and the user then has a zero balance in the currency of
\* the request with nothing reserved
C29_NewUserReserveIsNotEnoughMoney == NewUserReserveRule(AlwaysNotEnoughMoney)

\* C29: Reserve for a user without a balance row returns not_enough_money,
\* or invalid_state when the order has a transaction, and the user then has
\* a zero balance in the currency of the request with nothing reserved
C29_NewUserReserveIsRefused == NewUserReserveRule(NotEnoughMoneyUnlessCommitted)

\* a user has no balance row while one order is committed and another is not
C29_Witness ==
    /\ \E u \in Users : u \notin DOMAIN balance
    /\ \E o \in Orders : TxOfOrder(Store, o) # {}
    /\ \E o \in Orders : TxOfOrder(Store, o) = {}

\* C30: the currency of a user's balance row is the currency of the user's
\* earliest top-up transaction, whatever calls came before that top-up
C30_HomeCurrencyIsFirstTopUp ==
    \A u \in Users :
        TopUpsOf(u) # {} =>
            LET first == CHOOSE t \in TopUpsOf(u) : \A x \in TopUpsOf(u) : t.id <= x.id
            IN  balance[u].currency = first.transaction_currency

---------------------------------------------------------------------------
(* query.go: FetchStatistics                                               *)
(* SpecStats: one run of FetchStatistics over a transaction table that     *)
(* does not change meanwhile. The variable session holds the run: its      *)
(* position, its locals and the callbacks it has invoked so far.           *)

\* number of rows of the transaction table in SpecStats
MaxStatRows == 3

\* the months the rows were created in, and the months asked for
StatMonths == {11, 12}

\* the item ids of the rows in ascending order; "" is a row without item_id
\* (a top-up, or a charge whose item id was omitted)
StatItems == <<"item", "other">>

\* the currencies of the rows in ascending order
StatCurrencies == <<"EUR", "USD">>

Range(q) == {q[i] : i \in DOMAIN q}

\* what FetchStatistics reads of a row
StatRows ==
    [item_id : Range(StatItems) \cup {""}, transaction_currency : Range(StatCurrencies),
     transaction_value : {Cent}, month : StatMonths]

\* the table whose row with id i has the columns f[i]
StatTable(f) == {f[i] @@ [id |-> i] : i \in DOMAIN f}

\* where date_trunc('month', "created_at") = make_date($1, $2, 1)
\*   and (order_data ->> 'item_id') is not null
StatMatching(txs, month) == {t \in txs : t.month = month /\ t.item_id # ""}

RECURSIVE SumTransactionValue(_)
SumTransactionValue(txs) ==
    IF txs = {} THEN 0
    ELSE LET t == CHOOSE x \in txs : TRUE
         IN  t.transaction_value + SumTransactionValue(txs \ {t})

\* the rows of: select item_id, transaction_currency, sum(transaction_value)
\* ... group by item_id, transaction_currency
\* order by item_id asc, transaction_currency asc
RECURSIVE StatGroups(_, _, _)
StatGroups(txs, i, c) ==
    IF i > Len(StatItems) THEN <<>>
    ELSE IF c > Len(StatCurrencies) THEN StatGroups(txs, i + 1, 1)
    ELSE LET group == {t \in txs : /\ t.item_id = StatItems[i]
                                   /\ t.transaction_currency = StatCurrencies[c]}
             row == [item |-> StatItems[i], currency |-> StatCurrencies[c],
                     value |-> SumTransactionValue(group)]
         IN  (IF group = {} THEN <<>> ELSE <<row>>) \o StatGroups(txs, i, c + 1)

\* the orders in which the elements of S can be returned
Orders_(S) ==
    {q \in [1 .. Cardinality(S) -> S] : \A i, j \in DOMAIN q : i # j => q[i] # q[j]}

NewRun(month) ==
    [pc |-> "acquire", month |-> month, calls |-> <<>>, rows |-> <<>>,
     currentItem |-> "", data |-> <<>>]

\* callbacks.OnError(...); return
OnError(r, msg) ==
    [r EXCEPT !.pc = "done", !.calls = Append(r.calls, [cb |-> "OnError", err |-> msg])]

\* conn, err := d.db.Acquire(ctx)
StatsAcquire(r, ok) ==
    IF ~ok THEN OnError(r, "acquire connection") ELSE [r EXCEPT !.pc = "begin"]

\* tx, err := conn.BeginTx(ctx, pgx.TxOptions{})
StatsBegin(r, ok) ==
    IF ~ok THEN OnError(r, "begin tx") ELSE [r EXCEPT !.pc = "currencies"]

\* 1) LOAD LIST OF CURRENCIES USED IN TRANSACTIONS, in the order the query
\* returned them, then callbacks.OnCurrencies(currencies)
StatsCurrencies(r, ok, currencies) ==
    IF ~ok THEN OnError(r, "load currencies")
    ELSE [r EXCEPT !.pc = "statistics",
                   !.calls = Append(r.calls, [cb |-> "OnCurrencies", currencies |-> currencies])]

\* 2) READ STATISTICS DATA: the query
StatsQuery(r, ok, txs) ==
    IF ~ok THEN OnError(r, "load statistics")
    ELSE [r EXCEPT !.pc = "rows", !.rows = StatGroups(StatMatching(txs, r.month), 1, 1)]

\* a loop that goes on to the next row after a row it could not scan
StatsRow_GoesOn(r, ok) ==
    IF ~ok
    THEN [r EXCEPT !.rows = Tail(r.rows),
                   !.calls = Append(r.calls, [cb |-> "OnError", err |-> "load statistics"])]
    ELSE LET row == Head(r.rows)
             flush == row.item # r.currentItem /\ r.currentItem # ""
             data == IF row.item # r.currentItem THEN <<>> ELSE r.data
         IN  [r EXCEPT !.rows = Tail(r.rows),
                       !.calls = IF flush
                                 THEN Append(r.calls, [cb |-> "OnRecord", item |-> r.currentItem,
                                                       values |-> r.data])
                                 ELSE r.calls,
                       !.currentItem = row.item,
                       !.data = (row.currency :> row.value) @@ data]

\* one turn of the loop "for rows.Next()"
StatsRow(r, ok) ==
    IF ~ok THEN OnError(r, "load statistics")
    ELSE LET row == Head(r.rows)
             flush == row.item # r.currentItem /\ r.currentItem # ""
             data == IF row.item # r.currentItem THEN <<>> ELSE r.data
         IN  [r EXCEPT !.rows = Tail(r.rows),
                       !.calls = IF flush
                                 THEN Append(r.calls, [cb |-> "OnRecord", item |-> r.currentItem,
                                                       values |-> r.data])
                                 ELSE r.calls,
                       !.currentItem = row.item,
                       !.data = (row.currency :> row.value) @@ data]

\* flush last
StatsFlush(r) ==
    [r EXCEPT !.pc = "done",
              !.calls = Append(r.calls, [cb |-> "OnRecord", item |-> r.currentItem,
                                         values |-> r.data])]

InitStats ==
    /\ balance = <<>>
    /\ balance_reserve = <<>>
    /\ lastID = 0
    /\ transaction \in {StatTable(f) : f \in UNION {[1 .. n -> StatRows] : n \in 0 .. MaxStatRows}}
    /\ session \in {NewRun(month) : month \in StatMonths}

\* the next step of the run; ok tells whether the store answered it
FetchStatistics(ok) ==
    /\ session.pc # "done"
    /\ \/ session.pc = "acquire" /\ session' = StatsAcquire(session, ok)
       \/ session.pc = "begin" /\ session' = StatsBegin(session, ok)
       \/ /\ session.pc = "currencies"
          /\ \E q \in Orders_({t.transaction_currency :
                                 t \in StatMatching(transaction, session.month)}) :
                session' = StatsCurrencies(session, ok, q)
       \/ session.pc = "statistics" /\ session' = StatsQuery(session, ok, transaction)
       \/ session.pc = "rows" /\ session.rows # <<>> /\ session' = StatsRow(session, ok)
       \/ session.pc = "rows" /\ session.rows = <<>> /\ ok /\ session' = StatsFlush(session)
    /\ UNCHANGED <<balance, balance_reserve, transaction, lastID>>

NextStats == \E ok \in BOOLEAN : FetchStatistics(ok)

SpecStats == InitStats /\ [][NextStats]_vars

\* the positions in the callbacks invoked so far of the callback cb
CallsOf(cb) == {i \in DOMAIN session.calls : session.calls[i].cb = cb}

\* OnCurrencies is invoked at most once and before every OnRecord; OnError
\* is invoked at most once and no callback follows it
CallbackOrder ==
    /\ Cardinality(CallsOf("OnCurrencies")) <= 1
    /\ \A i \in CallsOf("OnRecord") : \E j \in CallsOf("OnCurrencies") : j < i
    /\ Cardinality(CallsOf("OnError")) <= 1
    /\ \A i \in CallsOf("OnError") : i = Len(session.calls)

\* C25 as stated: the callbacks come in order, and every run invokes
\* OnCurrencies exactly once
C25_CurrenciesOnceInEveryRun ==
    /\ CallbackOrder
    /\ session.pc = "done" => Cardinality(CallsOf("OnCurrencies")) = 1

\* C25: OnCurrencies is invoked at most once and before every OnRecord,
\* OnError at most once with no callback after it, and a run that ended has
\* invoked OnCurrencies unless its first callback was OnError
C25_CurrenciesFirstUnlessError ==
    /\ CallbackOrder
    /\ session.pc = "done" =>
         \/ Cardinality(CallsOf("OnCurrencies")) = 1
         \/ session.calls = <<[cb |-> "OnError", err |-> session.calls[1].err]>>

\* one run failed after records were delivered
C25_Witness ==
    /\ session.pc = "done"
    /\ CallsOf("OnRecord") # {}
    /\ CallsOf("OnError") # {}

\* the OnRecord callbacks invoked so far, in their order
RECURSIVE Records(_)
Records(calls) ==
    IF calls = <<>> THEN <<>>
    ELSE (IF Head(calls).cb = "OnRecord" THEN <<Head(calls)>> ELSE <<>>) \o Records(Tail(calls))

\* for every item of StatItems from the i-th on that has a charge among txs,
\* in ascending order, the item with its sum of transaction_value per currency
RECURSIVE ItemTotals(_, _)
ItemTotals(txs, i) ==
    IF i > Len(StatItems) THEN <<>>
    ELSE LET charges == {t \in txs : t.item_id = StatItems[i]}
             currencies == {t.transaction_currency : t \in charges}
             values == [c \in currencies |->
                          SumTransactionValue({t \in charges : t.transaction_currency = c})]
         IN  (IF charges = {} THEN <<>>
              ELSE <<[cb |-> "OnRecord", item |-> StatItems[i], values |-> values]>>)
             \o ItemTotals(txs, i + 1)

\* C27: a run that ended without an error has invoked OnRecord once for
\* every item_id charged in the month, in ascending order of item_id, with
\* the sums of transaction_value per currency, and not once more: no
\* OnRecord for a month without such a charge
C27_OneRecordPerItem ==
    session.pc = "done" /\ CallsOf("OnError") = {} =>
        Records(session.calls) = ItemTotals(StatMatching(transaction, session.month), 1)

---------------------------------------------------------------------------
(* utils/cursor.go                                                         *)
(* A Go value handed to MarshalCursor is a record [type, fields]; a field  *)
(* value is a record [k, s, n] of its kind, its string and its number.     *)
(* A byte string sealed by AES-GCM is kept as what it was made of: the     *)
(* nonce, the encrypted stream and the tag; only Seal makes a tag.         *)

Val(k, s, n) == [k |-> k, s |-> s, n |-> n]

\* the zero value of a kind
Zero(k) == Val(k, "", 0)

IsZero(v) == v.s = "" /\ v.n = 0

\* the result nil of UnmarshalCursor
Nil == [type |-> "nil", fields |-> <<>>]

\* type cursorForListTransactions struct { UserID; MinTime, MaxTime; Before }
cursorForListTransactions ==
    <<[f |-> "UserID", k |-> "string"], [f |-> "MinTime", k |-> "time"],
      [f |-> "MaxTime", k |-> "time"], [f |-> "Before", k |-> "int"]>>

\* the types gob knows by name: its basic types and what RegisterCursorType
\* registered, each with its fields in order
gobRegistered ==
    [cursorForListTransactions |-> cursorForListTransactions,
     int |-> <<[f |-> "", k |-> "int"]>>,
     string |-> <<[f |-> "", k |-> "string"]>>]

\* gob.NewEncoder(&buf).Encode(&input): the name of the concrete type, then
\* the fields in order, a struct field with the zero value being left out;
\* a value that is no struct is sent even if zero
RECURSIVE gobFields(_, _, _)
gobFields(v, decl, i) ==
    IF i > Len(decl) THEN <<>>
    ELSE LET x == v.fields[decl[i].f]
             sent == decl[i].f = "" \/ ~IsZero(x)
         IN  (IF sent THEN <<[f |-> decl[i].f, k |-> x.k, s |-> x.s, n |-> x.n]>> ELSE <<>>)
             \o gobFields(v, decl, i + 1)

gobEncode(v) ==
    <<[f |-> "", k |-> "type", s |-> v.type, n |-> 0]>>
    \o gobFields(v, gobRegistered[v.type], 1)

\* a decoder that gives up on a stream without one of the fields
gobDecode_AllFields(plain) ==
    IF plain = <<>> \/ Head(plain).k # "type" \/ Head(plain).s \notin DOMAIN gobRegistered
    THEN Nil
    ELSE LET decl == gobRegistered[Head(plain).s]
             sent == Tail(plain)
         IN  IF Len(sent) # Len(decl) THEN Nil
             ELSE [type |-> Head(plain).s,
                   fields |-> [f \in {decl[i].f : i \in DOMAIN decl} |->
                                 LET t == CHOOSE x \in Range(sent) : x.f = f
                                 IN  Val(t.k, t.s, t.n)]]

\* gob.NewDecoder(...).Decode(&dst): a value of the named type, the fields
\* that were not sent keeping their zero value; nil for a name not known
gobDecode(plain) ==
    IF plain = <<>> \/ Head(plain).k # "type" \/ Head(plain).s \notin DOMAIN gobRegistered
    THEN Nil
    ELSE LET decl == gobRegistered[Head(plain).s]
             sent == Tail(plain)
         IN  [type |-> Head(plain).s,
              fields |-> [f \in {decl[i].f : i \in DOMAIN decl} |->
                            IF \E x \in Range(sent) : x.f = f
                            THEN LET t == CHOOSE x \in Range(sent) : x.f = f
                                 IN  Val(t.k, t.s, t.n)
                            ELSE Zero((CHOOSE d \in Range(decl) : d.f = f).k)]]

\* gcm.NonceSize() and the length of the tag gcm.Seal appends, in bytes
NonceSize == 12

TagSize == 16

\* the nonces rand.Reader gives
Nonces == {1, 2}

\* the tag of no message
NoTag == [nonce |-> 0, stream |-> <<>>]

\* gcm.Seal(nonce, nonce, plain, nil): the nonce, the stream of plain
\* encrypted under it, and the tag of both
Seal(nonce, plain) ==
    LET stream == [i \in 1 .. Len(plain) |-> [nonce |-> nonce, i |-> i, p |-> plain[i]]]
    IN  [nonce |-> nonce, stream |-> stream, tag |-> [nonce |-> nonce, stream |-> stream]]

\* gcm.Open(nil, nonce, ciphertext, nil): <<plain, ok>>, ok only with the tag
\* of this nonce and this stream
Open(bytes) ==
    IF bytes.tag = [nonce |-> bytes.nonce, stream |-> bytes.stream]
    THEN <<[i \in 1 .. Len(bytes.stream) |-> bytes.stream[i].p], TRUE>>
    ELSE <<<<>>, FALSE>>

\* the number of bytes of a sealed byte string (a field sent counts as one)
ByteLen(bytes) == NonceSize + Len(bytes.stream) + TagSize

\* the bits of the last character of an unpadded base64 string that carry
\* no data
UnusedBits(bytes) ==
    CASE ByteLen(bytes) % 3 = 0 -> 0
      [] ByteLen(bytes) % 3 = 1 -> 4
      [] ByteLen(bytes) % 3 = 2 -> 2

\* base64.RawURLEncoding.EncodeToString: the bytes, the unused bits of the
\* last character zero, nothing else in the string. A string has
\*   short: fewer bytes than a nonce,   slack: the unused bits,
\*   extra: "" or a character added to it
EncodeToString(bytes) ==
    [empty |-> FALSE, short |-> FALSE, bytes |-> bytes, slack |-> 0, extra |-> ""]

\* the string ""
EmptyString ==
    [empty |-> TRUE, short |-> TRUE, bytes |-> [nonce |-> 0, stream |-> <<>>, tag |-> NoTag],
     slack |-> 0, extra |-> ""]

\* base64.RawURLEncoding.DecodeString: <<bytes, ok>>. The decoder skips
\* "\r" and "\n" and does not look at the unused bits of the last
\* character; any other character outside the alphabet is an error
DecodeString(str) ==
    IF str.extra \notin {"", "\n"} THEN <<str.bytes, FALSE>> ELSE <<str.bytes, TRUE>>

MarshalCursor(input, nonce) == EncodeToString(Seal(nonce, gobEncode(input)))

UnmarshalCursor(input) ==
    LET decoded == DecodeString(input)
        ciphertext == decoded[1]
    IN  IF ~decoded[2] THEN Nil
        ELSE IF input.short THEN Nil
        ELSE IF ~Open(ciphertext)[2] THEN Nil
        ELSE gobDecode(Open(ciphertext)[1])

\* ListTransactionsHandler on the cursor of the request: the error it
\* answers and the cursor record it goes on with (Nil: none)
ListTransactionsCursor(input) ==
    IF input.empty THEN [err |-> "", cursor |-> Nil]
    ELSE LET cursor == UnmarshalCursor(input)
         IN  IF cursor = Nil THEN [err |-> "bad_parameter:cursor", cursor |-> Nil]
             ELSE IF cursor.type # "cursorForListTransactions"
             THEN [err |-> "bad_parameter:cursor", cursor |-> Nil]
             ELSE [err |-> "", cursor |-> cursor]

---------------------------------------------------------------------------
(* SpecCursor: a value is marshalled, the string travels to the client     *)
(* and back, perhaps changed on the way, and ListTransactionsHandler       *)
(* reads it.  session is the record of that one cursor.                    *)

\* the cursor records ListTransactionsHandler can build (lines 215-220):
\* the user of the request, its time bounds or none, the next id
CursorRecords ==
    {[type |-> "cursorForListTransactions",
      fields |-> [UserID |-> Val("string", u, 0), MinTime |-> Val("time", "", a),
                  MaxTime |-> Val("time", "", b), Before |-> Val("int", "", id)]] :
        u \in Users, a \in {0, 11}, b \in {0, 12}, id \in 1 .. MaxID}

\* values of the other types the codec takes (cursor_test.go)
OtherValues ==
    {[type |-> "int", fields |-> [x \in {""} |-> Val("int", "", n)]] : n \in {0, 1251}}
    \cup {[type |-> "string", fields |-> [x \in {""} |-> Val("string", s, 0)]] :
              s \in {"", "test string"}}

\* what a client can make of a cursor string without the key: another
\* nonce, a piece of the stream or the tag of another cursor, a cut,
\* other unused bits in the last character, a line break or another
\* character added
Changed(str) ==
    ({[str EXCEPT !.bytes.nonce = n] : n \in Nonces \ {str.bytes.nonce}}
     \cup UNION {{[str EXCEPT !.bytes.stream[i] = x.bytes.stream[i]] :
                     i \in DOMAIN str.bytes.stream \cap DOMAIN x.bytes.stream} :
                 x \in {MarshalCursor(v, n) : v \in CursorRecords, n \in Nonces}}
     \cup {[str EXCEPT !.bytes.tag = MarshalCursor(v, str.bytes.nonce).bytes.tag] :
               v \in CursorRecords}
     \cup {[str EXCEPT !.bytes.tag = NoTag], [str EXCEPT !.short = TRUE]}
     \cup {[str EXCEPT !.slack = 1] : b \in {UnusedBits(str.bytes)} \ {0}}
     \cup {[str EXCEPT !.extra = c] : c \in {"\n", "!"}})
    \ {str}

InitCursor ==
    /\ balance = <<>>
    /\ balance_reserve = <<>>
    /\ transaction = {}
    /\ lastID = 0
    /\ session \in [pc : {"marshal"}, input : CursorRecords \cup OtherValues,
                    str : {EmptyString}, sent : {EmptyString},
                    out : {[err |-> "", cursor |-> Nil]}]

MarshalCursorCall(nonce) ==
    /\ session.pc = "marshal"
    /\ LET str == MarshalCursor(session.input, nonce)
       IN  session' = [session EXCEPT !.pc = "client", !.str = str, !.sent = str]
    /\ UNCHANGED <<balance, balance_reserve, transaction, lastID>>

ClientChanges ==
    /\ session.pc = "client"
    /\ session.str = session.sent
    /\ \E str \in Changed(session.str) : session' = [session EXCEPT !.str = str]
    /\ UNCHANGED <<balance, balance_reserve, transaction, lastID>>

ListTransactionsCursorCall ==
    /\ session.pc = "client"
    /\ session' = [session EXCEPT !.pc = "return", !.out = ListTransactionsCursor(session.str)]
    /\ UNCHANGED <<balance, balance_reserve, transaction, lastID>>

NextCursor ==
    \/ \E nonce \in Nonces : MarshalCursorCall(nonce)
    \/ ClientChanges
    \/ ListTransactionsCursorCall

SpecCursor == InitCursor /\ [][NextCursor]_vars

ListCursors == {MarshalCursor(v, n) : v \in CursorRecords, n \in Nonces}

\* C24: a cursor string that is not empty and is not a string MarshalCursor
\* gave for the cursor type of ListTransactions is refused: the handler
\* answers bad_parameter(cursor) and goes on with no cursor record.
C24_OnlyMarshalledCursorsPass ==
    (session.pc = "return" /\ ~session.str.empty /\ session.str \notin ListCursors)
        => session.out = [err |-> "bad_parameter:cursor", cursor |-> Nil]

---------------------------------------------------------------------------
(* query.go: FetchUserTransactions, and ListTransactionsHandler            *)
(* SpecList: a client reads the transactions of a user page by page while  *)
(* mutations append transactions.  A row of the table is                   *)
(* [id, sender_id, recipient_id, created_at]; the time 0 is the zero time  *)
(* (no bound).  session is the record of the client: its request, the      *)
(* cursor it holds and the pages it was given.                             *)

\* the largest id of SpecList
MaxListID == 3

ListTimes == {11, 12}

\* ORDER BY id DESC, as a sequence of ids
RECURSIVE OrderByIdDesc(_)
OrderByIdDesc(ids) ==
    IF ids = {} THEN <<>>
    ELSE LET m == CHOOSE x \in ids : \A y \in ids : y <= x
         IN  <<m>> \o OrderByIdDesc(ids \ {m})

\* WHERE (sender_id = $1 OR recipient_id = $1)
\*   AND ($2 = 0 OR created_at >= $3) AND ($4 = 0 OR created_at <= $5)
UserTransactions(txs, userID, minDate, maxDate) ==
    {t \in txs : /\ t.sender_id = userID \/ t.recipient_id = userID
                 /\ minDate = 0 \/ t.created_at >= minDate
                 /\ maxDate = 0 \/ t.created_at <= maxDate}

Min(a, b) == IF a < b THEN a ELSE b

Max(a, b) == IF a > b THEN a ELSE b

\* the first n of the rows, or all of them
Take(rows, n) == SubSeq(rows, 1, Min(n, Len(rows)))

\* a query that leaves out the row with the id of the cursor
FetchUserTransactions_Below(txs, userID, limit, before, minDate, maxDate) ==
    IF userID = "" THEN [items |-> <<>>, nextBefore |-> 0, total |-> 0, err |-> "bad_parameter:user id"]
    ELSE LET matching == UserTransactions(txs, userID, minDate, maxDate)
             rows == Take(OrderByIdDesc({t.id : t \in {x \in matching : before = 0 \/ x.id < before}}),
                         limit + 1)
         IN  [items |-> Take(rows, limit),
              nextBefore |-> IF Len(rows) > limit THEN rows[Len(rows)] ELSE 0,
              total |-> Cardinality(matching), err |-> ""]

\* the rows are read in order: the first limit of them are the items, the
\* id of a row after them is nextBefore (LIMIT limit+1 leaves one at most)
FetchUserTransactions(txs, userID, limit, before, minDate, maxDate) ==
    IF userID = "" THEN [items |-> <<>>, nextBefore |-> 0, total |-> 0, err |-> "bad_parameter:user id"]
    ELSE LET matching == UserTransactions(txs, userID, minDate, maxDate)
             rows == Take(OrderByIdDesc({t.id : t \in {x \in matching : before = 0 \/ x.id <= before}}),
                         limit + 1)
         IN  [items |-> Take(rows, limit),
              nextBefore |-> IF Len(rows) > limit THEN rows[Len(rows)] ELSE 0,
              total |-> Cardinality(matching), err |-> ""]

\* limit = int(math.Min(math.Max(float64(limit), 1), 100)) after
\* if limit <= 0 { limit = 20 }
HandlerLimit(limit) == Min(Max(IF limit <= 0 THEN 20 ELSE limit, 1), 100)

\* ListTransactionsHandler on a request [user_id, limit, min_ts, max_ts,
\* cursor]; nonce is the nonce of the cursor it may give
ListTransactionsHandler(txs, input, nonce) ==
    LET limit == HandlerLimit(input.limit)
        c == ListTransactionsCursor(input.cursor)
        given == c.cursor # Nil
        userID == IF given THEN c.cursor.fields.UserID.s ELSE input.user_id
        before == IF given THEN c.cursor.fields.Before.n ELSE 0
        minTime == IF given THEN c.cursor.fields.MinTime.n ELSE input.min_ts
        maxTime == IF given THEN c.cursor.fields.MaxTime.n ELSE input.max_ts
        r == FetchUserTransactions(txs, userID, limit, before, minTime, maxTime)
    IN  IF c.err # "" THEN [err |-> c.err, items |-> <<>>, next_cursor |-> EmptyString, total |-> 0]
        ELSE IF r.err # "" THEN [err |-> r.err, items |-> <<>>, next_cursor |-> EmptyString, total |-> 0]
        ELSE [err |-> "", items |-> r.items,
              next_cursor |-> IF r.nextBefore # 0
                              THEN MarshalCursor([type |-> "cursorForListTransactions",
                                                  fields |-> [UserID |-> Val("string", userID, 0),
                                                              MinTime |-> Val("time", "", minTime),
                                                              MaxTime |-> Val("time", "", maxTime),
                                                              Before |-> Val("int", "", r.nextBefore)]],
                                                 nonce)
                              ELSE EmptyString,
              total |-> r.total]

\* the limits a client asks for
ListLimits == {0 - 1, 0, 1, 2, 101}

InitList ==
    /\ balance = <<>>
    /\ balance_reserve = <<>>
    /\ transaction = {}
    /\ lastID = 0
    /\ session = [pc |-> "idle", user_id |-> "", limit |-> 0, min_ts |-> 0, max_ts |-> 0,
                  cursor |-> EmptyString, first |-> {}, pages |-> <<>>, cursors |-> <<>>]

\* a mutation of a user commits a transaction: a top-up (the user is the
\* recipient) or a charge (the user is the sender); the id is generated
\* under the lock of the user's balance row
AppendTransaction(u, topUp, at) ==
    /\ lastID < MaxListID
    /\ lastID' = lastID + 1
    /\ transaction' = transaction \cup
           {[id |-> lastID + 1, sender_id |-> IF topUp THEN "" ELSE u,
             recipient_id |-> IF topUp THEN u ELSE "", created_at |-> at]}
    /\ UNCHANGED <<balance, balance_reserve, session>>

\* the first request of the client: no cursor
FirstPage(u, limit, min_ts, max_ts, nonce) ==
    /\ session.pc = "idle"
    /\ LET input == [user_id |-> u, limit |-> limit, min_ts |-> min_ts, max_ts |-> max_ts,
                     cursor |-> EmptyString]
           out == ListTransactionsHandler(transaction, input, nonce)
       IN  session' = [pc |-> IF out.next_cursor.empty THEN "done" ELSE "next",
                       user_id |-> u, limit |-> limit, min_ts |-> min_ts, max_ts |-> max_ts,
                       cursor |-> out.next_cursor,
                       first |-> {t.id : t \in UserTransactions(transaction, u, min_ts, max_ts)},
                       pages |-> <<out.items>>, cursors |-> <<~out.next_cursor.empty>>]
    /\ UNCHANGED <<balance, balance_reserve, transaction, lastID>>

\* a later request: the cursor of the page before, whatever else it names
NextPage(u, min_ts, max_ts, nonce) ==
    /\ session.pc = "next"
    /\ LET input == [user_id |-> u, limit |-> session.limit, min_ts |-> min_ts, max_ts |-> max_ts,
                     cursor |-> session.cursor]
           out == ListTransactionsHandler(transaction, input, nonce)
       IN  session' = [session EXCEPT !.pc = IF out.next_cursor.empty THEN "done" ELSE "next",
                                      !.cursor = out.next_cursor,
                                      !.pages = Append(@, out.items),
                                      !.cursors = Append(@, ~out.next_cursor.empty)]
    /\ UNCHANGED <<balance, balance_reserve, transaction, lastID>>

NextList ==
    \/ \E u \in Users, topUp \in BOOLEAN, at \in ListTimes : AppendTransaction(u, topUp, at)
    \/ \E u \in Users, limit \in ListLimits, min_ts \in {0, 12}, max_ts \in {0, 11}, nonce \in Nonces :
           FirstPage(u, limit, min_ts, max_ts, nonce)
    \/ \E u \in Users, min_ts \in {0, 12}, max_ts \in {0, 11}, nonce \in Nonces :
           NextPage(u, min_ts, max_ts, nonce)

SpecList == InitList /\ [][NextList]_vars

\* the pages one after the other
RECURSIVE Concat(_)
Concat(pages) == IF pages = <<>> THEN <<>> ELSE Head(pages) \o Concat(Tail(pages))

\* the limit as the claim words it
ClaimedLimit(limit) == IF limit <= 0 THEN 20 ELSE IF limit > 100 THEN 100 ELSE limit

\* C22: the pages of a client that follows nextCursor are, one after the
\* other, the transactions that matched at the first request in descending
\* id order, each once and none else: a beginning of that list while a cursor
\* is held, the whole list when none is returned.  A page holds at most
\* limit rows (20 for limit <= 0, 100 for limit > 100), and it comes with a
\* cursor exactly if more than limit of these transactions were left when
\* it was asked for.  Transactions appended meanwhile change none of this.
C22_PagesAreTheFirstMatchesOnce ==
    session.pc \in {"next", "done"} =>
        LET want == OrderByIdDesc(session.first)
            got == Concat(session.pages)
            n == ClaimedLimit(session.limit)
        IN  /\ HandlerLimit(session.limit) = n
            /\ Len(got) <= Len(want)
            /\ got = SubSeq(want, 1, Len(got))
            /\ session.pc = "done" => got = want
            /\ \A k \in DOMAIN session.pages :
                   LET left == Len(want) - Len(Concat(SubSeq(session.pages, 1, k - 1)))
                   IN  /\ Len(session.pages[k]) <= n
                       /\ session.cursors[k] <=> left > n
                       /\ Len(session.pages[k]) = Min(left, n)

\* two pages of one row each were read to the end, a matching transaction
\* of the same user having been appended after the first request
C22_Witness ==
    /\ session.pc = "done"
    /\ Len(session.pages) = 2
    /\ session.limit = 1
    /\ session.max_ts # 0
    /\ \E t \in UserTransactions(transaction, session.user_id, session.min_ts, session.max_ts) :
           t.id \notin session.first

---------------------------------------------------------------------------
(* What a call may change                                                  *)

\* the call repeats one that has its transaction already
Replayed(call) ==
    \/ call.op = "TopUp" /\ TxByIdempotencyKey(Store, call.idempotencyKey) # 0
    \/ call.op = "Commit" /\ TxOfOrder(Store, call.orderID) # {}

\* whatever call is made, no balance row and no transaction goes away or is
\* altered; a current_value that differs afterwards was raised by a TopUp or
\* lowered by a Commit that succeeded and was no replay, and for every such
\* TopUp Moves(call, before, after) and for every such Commit
\* Moves(call, after, before) holds of the caller's current_value; Reserve
\* and Cancel leave every current_value and the transactions as they are
MoneyRule(Moves(_, _, _)) ==
    \A call \in AnyCalls :
        LET r == Run(Store, call)
            moved == r.l.retErr = "" /\ ~Replayed(call)
        IN  /\ transaction \subseteq r.db.transaction
            /\ DOMAIN balance \subseteq DOMAIN r.db.balance
            /\ \A u \in Users :
                   CurrentValue(r.db, u) # CurrentValue(Store, u) =>
                       /\ moved
                       /\ call.op = "TopUp" => CurrentValue(r.db, u) > CurrentValue(Store, u)
                       /\ call.op = "Commit" => CurrentValue(r.db, u) < CurrentValue(Store, u)
            /\ (moved /\ call.op = "TopUp") =>
                   Moves(call, CurrentValue(Store, call.userID), CurrentValue(r.db, call.userID))
            /\ (moved /\ call.op = "Commit") =>
                   Moves(call, CurrentValue(r.db, call.userID), CurrentValue(Store, call.userID))
            /\ call.op \in {"Reserve", "Cancel"} =>
                   /\ r.db.transaction = transaction
                   /\ \A u \in Users : CurrentValue(r.db, u) = CurrentValue(Store, u)

Increases(call, low, high) == low < high

\* the amount is in the home currency of the caller: the value moves; it is
\* converted: the value moves or, the amount being lost in rounding, stays
IncreasesUnlessRoundedAway(call, low, high) ==
    /\ low <= high
    /\ call.currency = Run(Store, call).db.balance[call.userID].currency => low < high

---------------------------------------------------------------------------
(* The balance history                                                     *)

\* the transactions of the user, and what each says of the user's balance
TransactionsOf(u) == TopUpsOf(u) \cup ChargesOf(u)

BalanceBefore(t, u) ==
    IF t.recipient_id = u THEN t.recipient_balance_before ELSE t.sender_balance_before

BalanceAfter(t, u) ==
    IF t.recipient_id = u THEN t.recipient_balance_after ELSE t.sender_balance_after

\* the transaction of the user with the next smaller id, if there is one
Previous(t, u) ==
    {p \in TransactionsOf(u) :
        /\ p.id < t.id
        /\ \A q \in TransactionsOf(u) : q.id < t.id => q.id <= p.id}

\* the transactions of every user link up in ascending id order: the first
\* starts at 0, each starts where the one before ended, the last ends at
\* current_value
HistoryLinks ==
    \A u \in Users :
        \A t \in TransactionsOf(u) :
            /\ Previous(t, u) = {} => BalanceBefore(t, u) = 0
            /\ \A p \in Previous(t, u) : BalanceBefore(t, u) = BalanceAfter(p, u)
            /\ (\A q \in TransactionsOf(u) : q.id <= t.id) =>
                   BalanceAfter(t, u) = CurrentValue(Store, u)

\* each transaction ends at where it starts plus the top-up or less the
\* charge it records
HistoryAdds ==
    \A u \in Users :
        \A t \in TransactionsOf(u) :
            BalanceAfter(t, u) =
                IF t.recipient_id = u THEN BalanceBefore(t, u) + t.recipient_value
                ELSE BalanceBefore(t, u) - t.sender_value

\* C32: for every user the transactions in ascending id order are a chain
\* that gives the history of the balance: the first has balance_before 0,
\* each balance_after is balance_before plus recipient_value or minus
\* sender_value, each balance_before is the balance_after of the one before,
\* and the last balance_after is current_value.
C32_TransactionsChainTheBalance == HistoryLinks /\ HistoryAdds

---------------------------------------------------------------------------
(* How a session ends                                                      *)

\* C33: a call that opened a session and returns an error to its caller
\* ends the session with a rollback, never with a commit.
C33_ErrorMeansRollback ==
    \A call \in AnyCalls :
        LET r == Run(Store, call)
        IN  (r.l.retErr # "" /\ r.l.ended # "") => r.l.ended = "rollback"

---------------------------------------------------------------------------
(* SpecRead: FetchUserBalance, statement by statement, beside the          *)
(* mutations.  The session of the query is begun with pgx.TxOptions{}, the *)
(* isolation level of the server (read committed): each of its two SELECTs *)
(* sees what is committed when it runs.  session is the record of the      *)
(* query; seen is what an undivided query would have answered in each of   *)
(* the committed states there were since it began.                         *)

IdleQuery ==
    [pc |-> "idle", userID |-> "", currency |-> "", available |-> 0, reserved |-> 0,
     err |-> "", seen |-> {}]

\* the mutations that commit beside the query
ReadCalls ==
    {NewCall("TopUp", k, u, c, v, "", "") :
        k \in SeqKeys, u \in Users, c \in ConcCurrencies, v \in Values}
    \cup {NewCall(op, "", u, c, v, o, "item") :
        op \in {"Reserve", "Commit"}, u \in Users, c \in ConcCurrencies,
        v \in Values, o \in ConcOrders}
    \cup {NewCall("Cancel", "", u, "", 0, o, "item") : u \in Users, o \in ConcOrders}

InitRead ==
    /\ balance = <<>>
    /\ balance_reserve = <<>>
    /\ transaction = {}
    /\ lastID = 0
    /\ session = IdleQuery

\* a mutation runs from its call to its commit or rollback
Mutation(l) ==
    /\ LET r == Run(Store, l)
       IN  /\ Install(r)
           /\ session' = IF session.pc \in {"balance", "reservations"}
                         THEN [session EXCEPT !.seen = @ \cup {FetchUserBalance(r.db, session.userID)}]
                         ELSE session

\* FetchUserBalance is called: the check of the user id, the session begun
FetchUserBalanceBegin(userID) ==
    /\ session.pc = "idle"
    /\ session' = IF userID = ""
                  THEN [IdleQuery EXCEPT !.pc = "done", !.err = "bad_parameter:user id"]
                  ELSE [IdleQuery EXCEPT !.pc = "balance", !.userID = userID,
                                         !.seen = {FetchUserBalance(Store, userID)}]
    /\ UNCHANGED <<balance, balance_reserve, transaction, lastID>>

\* 1) GET CURRENT BALANCE
FetchUserBalanceRow ==
    /\ session.pc = "balance"
    /\ session' = IF session.userID \notin DOMAIN balance
                  THEN [session EXCEPT !.pc = "done", !.err = "user_not_found"]
                  ELSE [session EXCEPT !.pc = "reservations",
                                       !.currency = balance[session.userID].currency,
                                       !.available = balance[session.userID].current_value]
    /\ UNCHANGED <<balance, balance_reserve, transaction, lastID>>

\* 2) GET RESERVATIONS, and the return
FetchUserBalanceReservations ==
    /\ session.pc = "reservations"
    /\ LET reserved == SumPositive(balance_reserve, ReservesOf(Store, session.userID))
       IN  session' = [session EXCEPT
                          !.pc = "done", !.reserved = reserved,
                          !.available = IF reserved > 0 THEN @ - reserved ELSE @]
    /\ UNCHANGED <<balance, balance_reserve, transaction, lastID>>

\* the caller has the answer; the next query may begin
FetchUserBalanceReturn ==
    /\ session.pc = "done"
    /\ session' = IdleQuery
    /\ UNCHANGED <<balance, balance_reserve, transaction, lastID>>

NextRead ==
    \/ \E l \in ReadCalls : Mutation(l)
    \/ \E userID \in AnyUsers : FetchUserBalanceBegin(userID)
    \/ FetchUserBalanceRow
    \/ FetchUserBalanceReservations
    \/ FetchUserBalanceReturn

SpecRead == InitRead /\ [][NextRead]_vars

\* C34: what FetchUserBalance answers is what one committed state of the
\* user says: its available and reserved are those of the state before or
\* of the state after a mutation that commits beside it, never the
\* current_value of the one with the reserves of the other.
C34_FetchBalanceReadsOneState ==
    (session.pc = "done" /\ session.err = "") =>
        \E s \in session.seen :
            /\ s.err = ""
            /\ s.currency = session.currency
            /\ s.available = session.available
            /\ s.reserved = session.reserved

---------------------------------------------------------------------------
(* SpecLive: the sessions of SpecConc under fair scheduling.  A session    *)
(* that waits for a row lock is served when the lock is free (the lock     *)
(* queue of the store), so a statement that can run again and again is     *)
(* run: strong fairness of every worker's statements.  Requests stop       *)
(* coming when MaxID ids are out.                                          *)

\* the ids handed out before the service stops taking calls
MaxLiveID == 2

CallLive(w, l) == lastID < MaxLiveID /\ Call(w, l)

NextLive ==
    \E w \in Workers :
        \/ \E l \in ConcCalls : CallLive(w, l)
        \/ Statement(w)

SpecLive == Init /\ [][NextLive]_vars /\ \A w \in Workers : SF_vars(Statement(w))

\* the sessions that are open
Open_ == {w \in Workers : session[w].pc # "idle"}

\* some open session can run its next statement
NoDeadlock ==
    Open_ # {} => \E w \in Open_ : ~HandlerBlocked(session[w], Others(w))

\* a session that waits waits for a session of its own user that has the
\* balance row locked, or for one that wrote a row of the same order or the
\* same idempotency key and has not ended yet
WaitsOnlyForItsOwn ==
    \A w \in Open_ :
        HandlerBlocked(session[w], Others(w)) =>
            \E q \in Open_ \ {w} :
                \/ /\ session[w].pc = "lock"
                   /\ session[q].locked
                   /\ session[q].userID = session[w].userID
                \/ /\ session[w].pc # "lock"
                   /\ session[q].pc = "end"
                   /\ \/ session[w].orderID # "" /\ session[q].orderID = session[w].orderID
                      \/ /\ session[w].idempotencyKey # ""
                         /\ session[q].idempotencyKey = session[w].idempotencyKey

\* C35: under fair scheduling every session that was opened ends (its
\* deferred func commits or rolls back, which frees the balance row it
\* locked); the open sessions are never all waiting, and a session never
\* waits for the balance row of another user.
C35_EverySessionEnds ==
    /\ [](NoDeadlock /\ WaitsOnlyForItsOwn)
    /\ \A w \in Workers : (session[w].pc # "idle") ~> (session[w].pc = "idle")

\* both workers have a session open for different users, one of them
\* waiting for a row of the order the other wrote
C35_Witness ==
    /\ Open_ = Workers
    /\ \E w \in Workers, q \in Workers :
          /\ session[w].userID # session[q].userID
          /\ session[w].locked /\ session[q].locked
          /\ HandlerBlocked(session[w], Others(w))

---------------------------------------------------------------------------
(* Whose rows a call touches                                               *)

C37_ReturnedTransactionIsTheCallers ==
    \A call \in AnyCalls :
        LET r == Run(Store, call)
        IN  (call.op \in {"TopUp", "Commit"} /\ r.l.retErr = "") =>
                \E t \in r.db.transaction :
                    /\ t.id = r.l.retID
                    /\ call.op = "TopUp" =>
                           t.recipient_id = call.userID /\ t.idempotency_key = call.idempotencyKey
                    /\ call.op = "Commit" => t.sender_id = call.userID

---------------------------------------------------------------------------
(* After a Cancel                                                          *)

\* the charge of a Commit of v in currency c for a user of the store db,
\* in the home currency of the user
ChargeIn(db, u, c, v) ==
    IF c = db.balance[u].currency THEN v
    ELSE ConvertCurrency(v, c, db.balance[u].currency)[1]

\* for every reservation there is and every Commit of its order that the
\* owner makes right after having cancelled it, Then(d, r, u, c, v) holds,
\* d being the store after the Cancel and r the outcome of the Commit
AfterCancelRule(Then(_, _, _, _, _)) ==
    \A u \in Users, o \in Orders :
        o \in ReservesOf(Store, u) =>
            LET cancel == CancelCall(u, o, "item")
            IN  /\ cancel.l.retErr = ""
                /\ o \notin DOMAIN cancel.db.balance_reserve
                /\ TxOfOrder(cancel.db, o) = {}
                /\ \A c \in RequestCurrencies, v \in Values :
                       Then(cancel.db, Run(cancel.db, NewCall("Commit", "", u, c, v, o, "item")),
                            u, c, v)

CommitFails(d, r, u, c, v) ==
    /\ r.l.retErr # ""
    /\ r.db.transaction = d.transaction
    /\ CurrentValue(r.db, u) = CurrentValue(d, u)

\* the Commit is that of an order never reserved: it charges if the balance
\* covers the charge and is refused with not_enough_money if not
CommitChargesWhatIsCovered(d, r, u, c, v) ==
    IF ChargeIn(d, u, c, v) <= CurrentValue(d, u)
    THEN /\ r.l.retErr = ""
         /\ \E t \in r.db.transaction \ d.transaction :
               /\ r.db.transaction = d.transaction \cup {t}
               /\ t.id = r.l.retID /\ t.order_id = r.l.orderID /\ t.sender_id = u
         /\ CurrentValue(r.db, u) >= 0
         /\ CurrentValue(r.db, u) <= CurrentValue(d, u)
    ELSE /\ r.l.retErr = "not_enough_money"
         /\ r.db.transaction = d.transaction
         /\ CurrentValue(r.db, u) = CurrentValue(d, u)

\* C38 (as stated): once Cancel has succeeded on an active reservation of
\* order O, every later Commit of O fails and charges nothing: no transaction
\* for O is created.
C38_CancelledOrderStaysCancelled == AfterCancelRule(CommitFails)

\* C38 (amended): once Cancel has succeeded on an active reservation of
\* order O, the order is as one never reserved: a later Commit of O charges
\* the user and records a transaction for O if current_value covers the
\* charge, and fails with not_enough_money, charging nothing, if it does
\* not (the overdraft of a reserved order is not open to it).
C38_CancelledOrderIsUnreserved == AfterCancelRule(CommitChargesWhatIsCovered)

\* a user with a reservation whose order, once cancelled, can be committed
\* in one currency and is refused in another
C38_Witness ==
    \E u \in Users, o \in Orders :
        /\ o \in ReservesOf(Store, u)
        /\ \E c \in RequestCurrencies, v \in Values :
              /\ ChargeIn(CancelCall(u, o, "item").db, u, c, v) <= CurrentValue(Store, u)
              /\ Run(CancelCall(u, o, "item").db,
                     NewCall("Commit", "", u, c, v, o, "item")).l.retErr = ""
        /\ \E c \in RequestCurrencies, v \in Values :
              /\ c # balance[u].currency
              /\ ChargeIn(CancelCall(u, o, "item").db, u, c, v) > CurrentValue(Store, u)
              /\ Run(CancelCall(u, o, "item").db,
                     NewCall("Commit", "", u, c, v, o, "item")).l.retErr = "not_enough_money"

(***************************************************************************)
(* SpecID: the id generator.  utils.GenerateID hands every call to the one *)
(* snowflake node of the process.  The node keeps the millisecond of its   *)
(* last id and a sequence number, both behind its mutex; an id is          *)
(* (milliseconds since the epoch) << 22 | node id << 12 | sequence.  The   *)
(* clock is the process's monotonic clock, in milliseconds since the       *)
(* epoch.  In this specification lastID is the last id generated and       *)
(* session holds the clock, the node and each caller's position.           *)
(***************************************************************************)

\* the last millisecond of the model's clock
MaxClock == 2

\* rand.Int63n(1024): the node ids a process may draw
nodeIdLimit == 1024

\* the width of the sequence number and the shift of the node id
StepBits == 12

\* the width of the node id
NodeBits == 10

RECURSIVE Pow2(_)
Pow2(n) == IF n = 0 THEN 1 ELSE 2 * Pow2(n - 1)

stepMask == Pow2(StepBits) - 1

\* snowflake.NewNode(nodeId): a node that has generated nothing
NewNode(id) == [node |-> id, time |-> 0, step |-> 0]

\* ID(now << timeShift | node << nodeShift | step)
MakeID(now, n, step) ==
    now * Pow2(NodeBits + StepBits) + n * Pow2(StepBits) + step

\* the sequence number node.Generate takes at millisecond now:
\* (n.step + 1) & stepMask within the millisecond of the last id, else 0
NextStep(n, now) ==
    IF now = n.time THEN (n.step + 1) % (stepMask + 1) ELSE 0

\* one node per call instead of the node of the process
node_PerCall == NewNode(session.node.node)

\* var node *snowflake.Node, set once by init()
node == session.node

IdleID == [w \in Workers |-> "idle"]

InitID ==
    /\ balance = [u \in {} |-> 0]
    /\ balance_reserve = {}
    /\ transaction = {}
    /\ lastID = 0
    /\ \E id \in {0, nodeIdLimit - 1}, c \in {0, 1} :
          session = [clock |-> c, node |-> NewNode(id), mu |-> "",
                     pc |-> IdleID, made |-> 0, prev |-> 0, spun |-> FALSE]

\* node.Generate returns ID(now, n.node, step) and remembers now and step
GenerateReturn(w, n, now, step, spun) ==
    /\ lastID' = MakeID(now, n.node, step)
    /\ session' = [session EXCEPT
                      !.node = [n EXCEPT !.time = now, !.step = step],
                      !.mu = "",
                      !.pc[w] = "idle",
                      !.made = IF @ < 2 THEN @ + 1 ELSE @,
                      !.prev = lastID,
                      !.spun = spun]

\* a session calls utils.GenerateID and waits for n.mu
GenerateIDCall(w) ==
    /\ session.pc[w] = "idle"
    /\ session' = [session EXCEPT !.pc[w] = "lock"]
    /\ UNCHANGED <<balance, balance_reserve, transaction, lastID>>

\* node.Generate under n.mu: it reads the clock, takes the next sequence
\* number and, when the sequence wrapped, keeps the mutex and waits for
\* the clock
Generate(w) ==
    /\ session.pc[w] = "lock"
    /\ session.mu = ""
    /\ LET n == node
           now == session.clock
           step == NextStep(n, now)
       IN  IF now = n.time /\ step = 0
           THEN /\ session' = [session EXCEPT !.mu = w, !.pc[w] = "spin",
                                              !.node = [n EXCEPT !.step = 0]]
                /\ UNCHANGED lastID
           ELSE GenerateReturn(w, n, now, step, FALSE)
    /\ UNCHANGED <<balance, balance_reserve, transaction>>

\* for now <= n.time { now = time.Since(n.epoch) }: the loop ends with the
\* first reading of a later millisecond
GenerateSpin(w) ==
    /\ session.pc[w] = "spin"
    /\ session.clock > session.node.time
    /\ GenerateReturn(w, session.node, session.clock, 0, TRUE)
    /\ UNCHANGED <<balance, balance_reserve, transaction>>

\* a millisecond passes
Tick ==
    /\ session.clock < MaxClock
    /\ session' = [session EXCEPT !.clock = @ + 1]
    /\ UNCHANGED <<balance, balance_reserve, transaction, lastID>>

NextID ==
    \/ \E w \in Workers : GenerateIDCall(w)
    \/ \E w \in Workers : Generate(w)
    \/ \E w \in Workers : GenerateSpin(w)
    \/ Tick

SpecID == InitID /\ [][NextID]_vars

\* C39: within one process every id GenerateID returns is positive and
\* greater than the id generated before it (so no two ids are equal), also
\* when several sessions call it at once and when the 4096 sequence numbers
\* of a millisecond are used up
C39_IdsIncrease ==
    /\ session.made > 0 => lastID > 0
    /\ session.made > 1 => session.prev < lastID

\* an id was generated after the sequence of a millisecond ran out, while
\* another session was waiting for the node
C39_Witness ==
    /\ session.made > 1
    /\ session.spun
    /\ session.prev % (stepMask + 1) = stepMask
    /\ lastID % (stepMask + 1) = 0
    /\ \E w \in Workers : session.pc[w] = "lock"

(***************************************************************************)
(* SpecMigrate: database.RunMigrations.  The schema has a number of        *)
(* migrations that are not applied yet.  migrate.New opens the migrations  *)
(* and the database; m.Up applies what is pending.  Either may fail with   *)
(* an error that pgconn.SafeToRetry accepts or with one it does not.  In   *)
(* this specification session is the run of RunMigrations and the schema.  *)
(***************************************************************************)

\* the most migrations that are pending when the service starts
MaxPending == 2

\* attempts := 5
Attempts == 5

\* the database URLs the service is started with, as scheme and rest
MigrateURLs ==
    {[scheme |-> s, rest |-> "db"] : s \in {"postgres", "pgx", "mysql"}}

\* if strings.HasPrefix(dbURL, "postgres://") { dbURL = "pgx://" + dbURL[11:] }
RewriteURL(dbURL) ==
    IF dbURL.scheme = "postgres" THEN [dbURL EXCEPT !.scheme = "pgx"] ELSE dbURL

\* the outcomes of migrate.New: only the pgx driver is registered
NewOutcomes(dbURL) ==
    IF dbURL.scheme = "pgx" THEN {"ok", "retry", "fatal"} ELSE {"fatal"}

\* the outcomes of m.Up: migrate.ErrNoChange when nothing is pending
UpOutcomes(pending) ==
    (IF pending = 0 THEN {"nochange"} ELSE {"ok"}) \cup {"retry", "fatal"}

InitMigrate ==
    /\ balance = [u \in {} |-> 0]
    /\ balance_reserve = {}
    /\ transaction = {}
    /\ lastID = 0
    /\ \E url \in MigrateURLs, p \in 0..MaxPending :
          session = [pc |-> "start", dbURL |-> url, attempts |-> 0,
                     pending |-> p, tries |-> 0, completed |-> FALSE,
                     failed |-> 0, ret |-> ""]

\* lines 16-20
RunMigrationsBegin ==
    /\ session.pc = "start"
    /\ session' = [session EXCEPT !.dbURL = RewriteURL(@),
                                  !.attempts = Attempts,
                                  !.pc = "loop"]
    /\ UNCHANGED <<balance, balance_reserve, transaction, lastID>>

\* for attempts > 0, and return nil after the loop
RunMigrationsLoop ==
    /\ session.pc = "loop"
    /\ session' = IF session.attempts > 0
                  THEN [session EXCEPT !.pc = "new", !.tries = @ + 1]
                  ELSE [session EXCEPT !.pc = "done", !.ret = "nil"]
    /\ UNCHANGED <<balance, balance_reserve, transaction, lastID>>

\* lines 22-26
MigrateNew ==
    /\ session.pc = "new"
    /\ \E out \in NewOutcomes(session.dbURL) :
          session' =
             CASE out = "ok" -> [session EXCEPT !.pc = "up"]
               [] out = "retry" ->
                     [session EXCEPT !.pc = "sleep", !.failed = @ + 1]
               [] out = "fatal" ->
                     [session EXCEPT !.pc = "done", !.failed = @ + 1,
                                     !.ret = "load migrations"]
    /\ UNCHANGED <<balance, balance_reserve, transaction, lastID>>

\* lines 27-34; a failing Up may have applied some of the migrations
MigrateUp ==
    /\ session.pc = "up"
    /\ \E out \in UpOutcomes(session.pending) :
          CASE out = "ok" ->
                  session' = [session EXCEPT !.pc = "sleep", !.pending = 0,
                                             !.completed = TRUE]
            [] out = "nochange" ->
                  session' = [session EXCEPT !.pc = "done", !.ret = "nil",
                                             !.completed = TRUE]
            [] out = "retry" ->
                  \E left \in (IF session.pending = 0 THEN {0}
                               ELSE 1..session.pending) :
                     session' = [session EXCEPT !.pc = "sleep",
                                                !.pending = left,
                                                !.failed = @ + 1]
            [] out = "fatal" ->
                  \E left \in (IF session.pending = 0 THEN {0}
                               ELSE 1..session.pending) :
                     session' = [session EXCEPT !.pc = "done",
                                                !.pending = left,
                                                !.failed = @ + 1,
                                                !.ret = "run migrations"]
    /\ UNCHANGED <<balance, balance_reserve, transaction, lastID>>

\* lines 36-37
MigrateSleep ==
    /\ session.pc = "sleep"
    /\ session' = [session EXCEPT !.pc = "loop", !.attempts = @ - 1]
    /\ UNCHANGED <<balance, balance_reserve, transaction, lastID>>

NextMigrate ==
    \/ RunMigrationsBegin
    \/ RunMigrationsLoop
    \/ MigrateNew
    \/ MigrateUp
    \/ MigrateSleep

SpecMigrate == InitMigrate /\ [][NextMigrate]_vars

\* C40: RunMigrations makes at most 5 attempts, and it returns nil only
\* when an Up() attempt completed or reported no change, so that the schema
\* is up to date; when every attempt failed it returns an error
C40_NilOnlyWhenUpToDate ==
    /\ session.tries <= Attempts
    /\ session.ret = "nil" =>
          /\ session.completed
          /\ session.pending = 0
          /\ session.failed < session.tries

====
